---- MODULE Spec2Model ----
(***************************************************************************)
(* A model of src/src/user_management.py (User, UserService) and of the    *)
(* handlers of src/src/api.py that touch the store.                        *)
(*                                                                         *)
(* Python values are tagged records; strings are sequences of one-letter   *)
(* strings so that strip(), the name pattern, int() and the JSON key       *)
(* conversion are computed, not assumed.  A dict is a sequence of          *)
(* [k, v] items in insertion order.                                        *)
(***************************************************************************)
EXTENDS Integers, Sequences, FiniteSets, TLC

\* ------------------------------------------------------------ Python values

PyInt(n) == [t |-> "int", n |-> n]
PyBool(b) == [t |-> "bool", b |-> b]
PyStr(s) == [t |-> "str", s |-> s]
PyNone == [t |-> "none"]
\* A JSON object / Python dict with string field names, as in user.__dict__
PyObj(f) == [t |-> "dict", f |-> f]

\* isinstance(v, int): bool is a subclass of int
IsInt(v) == v.t \in {"int", "bool"}

IsStr(v) == v.t = "str"

\* the integer a Python int or bool compares as
IntOf(v) == IF v.t = "bool" THEN (IF v.b THEN 1 ELSE 0) ELSE v.n

\* Python ==  (and, for the values used as keys, equal hashes)
PyEq(a, b) ==
    IF IsInt(a) /\ IsInt(b) THEN IntOf(a) = IntOf(b)
    ELSE IF a.t # b.t THEN FALSE
    ELSE a = b

\* ------------------------------------------------------------------ strings

Digits == <<"0", "1", "2", "3", "4", "5", "6", "7", "8", "9">>

DigitSet == {Digits[i] : i \in 1..10}

DigitVal(c) == (CHOOSE i \in 1..10 : Digits[i] = c) - 1

Whitespace == {" ", "\t", "\n", "\r"}

Letters ==
    {"a", "b", "c", "d", "e", "f", "g", "h", "i", "j", "k", "l", "m",
     "n", "o", "p", "q", "r", "s", "t", "u", "v", "w", "x", "y", "z",
     "A", "B", "C", "D", "E", "F", "G", "H", "I", "J", "K", "L", "M",
     "N", "O", "P", "Q", "R", "S", "T", "U", "V", "W", "X", "Y", "Z"}

\* _ALLOWED_NAME_CHARS_PATTERN = ^[a-zA-Z .'-]+$
ALLOWED_NAME_CHARS == Letters \cup {" ", ".", "'", "-"}

SetMin(S) == CHOOSE x \in S : \A y \in S : x <= y

SetMax(S) == CHOOSE x \in S : \A y \in S : x >= y

\* str.strip()
strip(s) ==
    LET keep == {i \in 1..Len(s) : s[i] \notin Whitespace}
    IN  IF keep = {} THEN <<>> ELSE SubSeq(s, SetMin(keep), SetMax(keep))

\* pattern.fullmatch(s) for the name pattern
fullmatch(s) == Len(s) >= 1 /\ \A i \in 1..Len(s) : s[i] \in ALLOWED_NAME_CHARS

\* the decimal digits of a natural number
RECURSIVE NatToStr(_)
NatToStr(n) ==
    IF n < 10 THEN <<Digits[n + 1]>>
    ELSE NatToStr(n \div 10) \o <<Digits[(n % 10) + 1]>>

\* int.__repr__
IntToStr(n) == IF n < 0 THEN <<"-">> \o NatToStr(0 - n) ELSE NatToStr(n)

\* the key json.dump writes for a dict key: true/false for a bool, else repr
JsonKey(k) ==
    IF k.t = "bool" THEN (IF k.b THEN <<"t", "r", "u", "e">>
                                 ELSE <<"f", "a", "l", "s", "e">>)
    ELSE IF k.t = "int" THEN IntToStr(k.n)
    ELSE k.s

\* the value of a run of digits with single underscores between digits
RECURSIVE DigitsValue(_, _)
DigitsValue(s, acc) ==
    IF s = <<>> THEN acc
    ELSE IF Head(s) = "_" THEN DigitsValue(Tail(s), acc)
    ELSE DigitsValue(Tail(s), 10 * acc + DigitVal(Head(s)))

WellFormedDigits(s) ==
    /\ Len(s) >= 1
    /\ \A i \in 1..Len(s) : s[i] \in DigitSet \cup {"_"}
    /\ s[1] # "_" /\ s[Len(s)] # "_"
    /\ \A i \in 1..(Len(s) - 1) : ~(s[i] = "_" /\ s[i + 1] = "_")

\* int(s) for a str: surrounding whitespace, an optional sign, then digits;
\* ok = FALSE stands for ValueError
ParseInt(s) ==
    LET c == strip(s)
        signed == Len(c) >= 1 /\ c[1] \in {"+", "-"}
        body == IF signed THEN Tail(c) ELSE c
    IN  IF ~WellFormedDigits(body) THEN [ok |-> FALSE, n |-> 0]
        ELSE [ok |-> TRUE,
              n |-> IF signed /\ c[1] = "-" THEN 0 - DigitsValue(body, 0)
                    ELSE DigitsValue(body, 0)]

\* -------------------------------------------------------------------- dicts

\* the position of the item whose key equals k, or 0
DictIndex(d, k) ==
    IF \E i \in 1..Len(d) : PyEq(d[i].k, k)
    THEN CHOOSE i \in 1..Len(d) : PyEq(d[i].k, k)
    ELSE 0

\* k in d
DictHas(d, k) == DictIndex(d, k) # 0

\* d[k] for a key that is present
DictGet(d, k) == d[DictIndex(d, k)].v

\* d.get(k)
DictGetOrNone(d, k) == IF DictHas(d, k) THEN DictGet(d, k) ELSE PyNone

\* an assignment that drops every other item
DictSet_Only(d, k, v) == <<[k |-> k, v |-> v]>>

\* an assignment that adds an item whether or not the key is present
DictSet_Append(d, k, v) == Append(d, [k |-> k, v |-> v])

\* an assignment that moves an existing key to the end
DictSet_MoveToEnd(d, k, v) ==
    IF \E i \in 1..Len(d) : PyEq(d[i].k, k)
    THEN LET i == CHOOSE i \in 1..Len(d) : PyEq(d[i].k, k)
         IN  Append(SubSeq(d, 1, i - 1) \o SubSeq(d, i + 1, Len(d)),
                    [k |-> d[i].k, v |-> v])
    ELSE Append(d, [k |-> k, v |-> v])

\* d[k] = v: an existing key keeps its key object and its position
DictSet(d, k, v) ==
    IF DictHas(d, k)
    THEN [d EXCEPT ![DictIndex(d, k)] = [k |-> d[DictIndex(d, k)].k, v |-> v]]
    ELSE Append(d, [k |-> k, v |-> v])

\* a pop that empties the dict
DictDel_Clear(d, k) == IF DictIndex(d, k) = 0 THEN d ELSE <<>>

\* d without key k
DictDel(d, k) ==
    LET i == DictIndex(d, k)
    IN  IF i = 0 THEN d
        ELSE SubSeq(d, 1, i - 1) \o SubSeq(d, i + 1, Len(d))

\* d.update(e)
RECURSIVE DictUpdate(_, _)
DictUpdate(d, e) ==
    IF e = <<>> THEN d
    ELSE DictUpdate(DictSet(d, Head(e).k, Head(e).v), Tail(e))

\* list(d.values())
DictValues(d) == [i \in 1..Len(d) |-> d[i].v]

DictKeys(d) == {d[i].k : i \in 1..Len(d)}

\* --------------------------------------------------------------------- User

NAME_MIN_LEN == 4

NAME_MAX_LEN == 70

\* _validate_id with "id < 0" in place of "id < 1"
validate_id_nonnegative(id) ==
    IF ~IsInt(id) THEN "TypeError"
    ELSE IF IntOf(id) < 0 THEN "ValueError"
    ELSE "ok"

\* User._validate_id: the exception raised, or "ok"
validate_id(id) ==
    IF ~IsInt(id) THEN "TypeError"
    ELSE IF IntOf(id) < 1 THEN "ValueError"
    ELSE "ok"

\* _validate_name measuring the length of the name as given, padding included
validate_name_raw_length(name) ==
    IF ~IsStr(name) THEN "TypeError"
    ELSE IF strip(name.s) = <<>> THEN "ValueError"
    ELSE IF ~fullmatch(strip(name.s)) THEN "ValueError"
    ELSE IF Len(name.s) < NAME_MIN_LEN THEN "ValueError"
    ELSE IF Len(name.s) > NAME_MAX_LEN THEN "ValueError"
    ELSE "ok"

\* User._validate_name: the exception raised, or "ok"; cleaned_name is strip(name)
validate_name(name) ==
    IF ~IsStr(name) THEN "TypeError"
    ELSE IF strip(name.s) = <<>> THEN "ValueError"
    ELSE IF ~fullmatch(strip(name.s)) THEN "ValueError"
    ELSE IF Len(strip(name.s)) < NAME_MIN_LEN THEN "ValueError"
    ELSE IF Len(strip(name.s)) > NAME_MAX_LEN THEN "ValueError"
    ELSE "ok"

\* User._validate_email: only the type is checked
validate_email(email) == IF ~IsStr(email) THEN "TypeError" ELSE "ok"

\* User.__init__: exc is the exception raised ("ok" for none) and user the
\* attributes the object then holds
User_init(id, name, email) ==
    IF validate_id(id) # "ok" THEN [exc |-> validate_id(id)]
    ELSE IF validate_name(name) # "ok" THEN [exc |-> validate_name(name)]
    ELSE IF validate_email(email) # "ok" THEN [exc |-> validate_email(email)]
    ELSE [exc |-> "ok",
          user |-> [id |-> id, name |-> PyStr(strip(name.s)), email |-> email]]

\* str(v) as an f-string renders it: the digits of an int, True or False for
\* a bool, a str as it is
Format(v) ==
    IF v.t = "bool" THEN (IF v.b THEN <<"T", "r", "u", "e">>
                                 ELSE <<"F", "a", "l", "s", "e">>)
    ELSE IF v.t = "int" THEN IntToStr(v.n)
    ELSE v.s

\* User.__str__ (lines 128-130): f"{self.name} - ID: {self.id}, Email: {self.email}"
User_str(u) ==
    Format(u.name) \o <<" ", "-", " ", "I", "D", ":", " ">> \o Format(u.id)
    \o <<",", " ", "E", "m", "a", "i", "l", ":", " ">> \o Format(u.email)

\* "No users in service."
NO_USERS ==
    <<"N", "o", " ", "u", "s", "e", "r", "s", " ", "i", "n", " ",
      "s", "e", "r", "v", "i", "c", "e", ".">>

\* "\n".join(output_strings)
RECURSIVE Join(_)
Join(output_strings) ==
    IF output_strings = <<>> THEN <<>>
    ELSE IF Len(output_strings) = 1 THEN Head(output_strings)
    ELSE Head(output_strings) \o <<"\n">> \o Join(Tail(output_strings))

\* the rendering numbered from 0: enumerate() without the "+ 1"
Render_FromZero(users_for_display) ==
    IF users_for_display = <<>> THEN NO_USERS
    ELSE Join([index \in 1..Len(users_for_display) |->
                  NatToStr(index - 1) \o <<".", " ">>
                  \o User_str(users_for_display[index])])

\* UserService.__str__ lines 390-397 over the list taken at line 388; index
\* here counts from 1, so it is the "index + 1" of line 395
Render(users_for_display) ==
    IF users_for_display = <<>> THEN NO_USERS
    ELSE Join([index \in 1..Len(users_for_display) |->
                  NatToStr(index) \o <<".", " ">>
                  \o User_str(users_for_display[index])])

\* ---------------------------------------------------------------- the files

\* what a path holds: nothing, a directory (every open() fails with an
\* OSError), bytes that the text mode of open() cannot decode, or a text that
\* json.load either rejects or parses to root
AbsentFile == [kind |-> "absent"]

DirFile == [kind |-> "dir"]

\* infile.read() inside json.load raises UnicodeDecodeError, a ValueError
\* that is neither a JSONDecodeError nor an OSError
UndecodableFile == [kind |-> "bytes"]

MalformedFile == [kind |-> "text", json |-> FALSE]

JsonFile(root) == [kind |-> "text", json |-> TRUE, root |-> root]

\* a dict with items in insertion order (the JSON root, users_list)
PyDict(items) == [t |-> "dict", items |-> items]

PyList == [t |-> "list"]

\* a snapshot value that leaves the email out
UserDict_NoEmail(u) == PyObj([id |-> u.id, name |-> u.name])

\* user.__dict__
UserDict(u) == PyObj([id |-> u.id, name |-> u.name, email |-> u.email])

\* lines 222-243 with FileNotFoundError swallowed: a missing file reads as {}
ReadJson_MissingIsEmpty(f) ==
    IF f.kind = "absent" THEN [exc |-> "ok", root |-> [t |-> "dict", items |-> <<>>]]
    ELSE IF f.kind = "dir" THEN [exc |-> "DataFileReadError"]
    ELSE IF f.kind = "bytes" THEN [exc |-> "UnicodeDecodeError"]
    ELSE IF ~f.json THEN [exc |-> "JSONDecodeError"]
    ELSE IF f.root.t # "dict" THEN [exc |-> "TypeError"]
    ELSE [exc |-> "ok", root |-> f.root]

\* lines 222-243 with one handler for JSONDecodeError and OSError: text that
\* is no JSON is reported as a read error
ReadJson_DecodeAsReadError(f) ==
    IF f.kind = "absent" THEN [exc |-> "FileNotFoundError"]
    ELSE IF f.kind = "dir" THEN [exc |-> "DataFileReadError"]
    ELSE IF f.kind = "bytes" THEN [exc |-> "UnicodeDecodeError"]
    ELSE IF ~f.json THEN [exc |-> "DataFileReadError"]
    ELSE IF f.root.t # "dict" THEN [exc |-> "TypeError"]
    ELSE [exc |-> "ok", root |-> f.root]

\* the outcome of lines 222-243 on a path holding f: the exception that
\* leaves load_users_from_json, or "ok" with the parsed root
ReadJson(f) ==
    IF f.kind = "absent" THEN [exc |-> "FileNotFoundError"]
    ELSE IF f.kind = "dir" THEN [exc |-> "DataFileReadError"]
    ELSE IF f.kind = "bytes" THEN [exc |-> "UnicodeDecodeError"]
    ELSE IF ~f.json THEN [exc |-> "JSONDecodeError"]
    ELSE IF f.root.t # "dict" THEN [exc |-> "TypeError"]
    ELSE [exc |-> "ok", root |-> f.root]

\* the loop body with line 256 dropped: the key string itself is compared
\* with the id
PrepareEntry_NoInt(user_id_str, user_data) ==
    IF user_data.t # "dict" THEN [exc |-> "TypeError"]
    ELSE IF "id" \notin DOMAIN user_data.f THEN [exc |-> "KeyError"]
    ELSE IF ~PyEq(PyStr(user_id_str), user_data.f.id) THEN [exc |-> "ValueError"]
    ELSE IF "name" \notin DOMAIN user_data.f THEN [exc |-> "KeyError"]
    ELSE IF "email" \notin DOMAIN user_data.f THEN [exc |-> "KeyError"]
    ELSE User_init(user_data.f.id, user_data.f.name, user_data.f.email)

\* the loop body without the comparison of lines 261-265: an entry is taken
\* under its id field whatever its key says
PrepareEntry_NoIdCheck(user_id_str, user_data) ==
    IF user_data.t # "dict" THEN [exc |-> "TypeError"]
    ELSE IF ~ParseInt(user_id_str).ok THEN [exc |-> "ValueError"]
    ELSE IF "id" \notin DOMAIN user_data.f THEN [exc |-> "KeyError"]
    ELSE IF "name" \notin DOMAIN user_data.f THEN [exc |-> "KeyError"]
    ELSE IF "email" \notin DOMAIN user_data.f THEN [exc |-> "KeyError"]
    ELSE User_init(user_data.f.id, user_data.f.name, user_data.f.email)

\* one pass of the body of the for loop of lines 249-283 over the entry
\* (user_id_str, user_data): the exception caught, or "ok" and the User
PrepareEntry(user_id_str, user_data) ==
    IF user_data.t # "dict" THEN [exc |-> "TypeError"]
    ELSE IF ~ParseInt(user_id_str).ok THEN [exc |-> "ValueError"]
    ELSE IF "id" \notin DOMAIN user_data.f THEN [exc |-> "KeyError"]
    ELSE IF ~PyEq(PyInt(ParseInt(user_id_str).n), user_data.f.id)
         THEN [exc |-> "ValueError"]
    ELSE IF "name" \notin DOMAIN user_data.f THEN [exc |-> "KeyError"]
    ELSE IF "email" \notin DOMAIN user_data.f THEN [exc |-> "KeyError"]
    ELSE User_init(user_data.f.id, user_data.f.name, user_data.f.email)

\* the loop with "break" in place of "continue": the first bad entry ends it
RECURSIVE PrepareFrom_StopAtBad(_, _)
PrepareFrom_StopAtBad(items, acc) ==
    IF items = <<>> THEN acc
    ELSE LET r == PrepareEntry(Head(items).k.s, Head(items).v)
         IN  IF r.exc = "ok"
             THEN PrepareFrom_StopAtBad(Tail(items),
                      [acc EXCEPT !.new_users_temp_dict =
                                      DictSet(@, r.user.id, r.user)])
             ELSE [acc EXCEPT !.users_failed_in_preparation = @ + 1,
                              !.skipped = Append(@, Head(items).k.s)]

\* the loop without line 276: a skipped entry is logged and not counted
RECURSIVE PrepareFrom_NoCount(_, _)
PrepareFrom_NoCount(items, acc) ==
    IF items = <<>> THEN acc
    ELSE LET r == PrepareEntry(Head(items).k.s, Head(items).v)
         IN  PrepareFrom_NoCount(Tail(items),
                 IF r.exc = "ok"
                 THEN [acc EXCEPT !.new_users_temp_dict =
                                      DictSet(@, r.user.id, r.user)]
                 ELSE [acc EXCEPT !.skipped = Append(@, Head(items).k.s)])

\* the for loop of lines 245-283 over the items of the root, from the state
\* acc of its three accumulators
RECURSIVE PrepareFrom(_, _)
PrepareFrom(items, acc) ==
    IF items = <<>> THEN acc
    ELSE LET r == PrepareEntry(Head(items).k.s, Head(items).v)
         IN  PrepareFrom(Tail(items),
                 IF r.exc = "ok"
                 THEN [acc EXCEPT !.new_users_temp_dict =
                                      DictSet(@, r.user.id, r.user)]
                 ELSE [acc EXCEPT !.users_failed_in_preparation = @ + 1,
                                  !.skipped = Append(@, Head(items).k.s)])

\* new_users_temp_dict, users_failed_in_preparation and the keys named by the
\* "Skipping invalid user data entry" log lines, after the loop
Prepare(root) ==
    PrepareFrom(root.items,
                [new_users_temp_dict |-> <<>>,
                 users_failed_in_preparation |-> 0,
                 skipped |-> <<>>])

\* lines 290-291 with the clear() left out
ClearStep_Never(store, clear_users_list) == store

\* lines 290-291: the store after the optional clear()
ClearStep(store, clear_users_list) == IF clear_users_list THEN <<>> ELSE store

\* line 298 as a merge that keeps the entries the store already has
RECURSIVE UpdateStep_KeepExisting(_, _)
UpdateStep_KeepExisting(store, new_users_temp_dict) ==
    IF new_users_temp_dict = <<>> THEN store
    ELSE UpdateStep_KeepExisting(
             IF DictHas(store, Head(new_users_temp_dict).k) THEN store
             ELSE Append(store, Head(new_users_temp_dict)),
             Tail(new_users_temp_dict))

\* line 298: users_list.update(new_users_temp_dict)
UpdateStep(store, new_users_temp_dict) == DictUpdate(store, new_users_temp_dict)

\* lines 332-334: users_to_export
Snapshot(store) == [i \in 1..Len(store) |-> [k |-> store[i].k, v |-> UserDict(store[i].v)]]

\* what json.dump(users_to_export) followed by json.load gives: every key
\* becomes its JSON key string
DumpJson(users_to_export) ==
    PyDict([i \in 1..Len(users_to_export) |->
               [k |-> PyStr(JsonKey(users_to_export[i].k)),
                v |-> users_to_export[i].v]])

\* src/api.py lines 66-79: the module-level instance preloads data/users.json
\* and starts empty when that fails
Preload(f) ==
    IF ReadJson(f).exc = "ok"
    THEN UpdateStep(<<>>, Prepare(ReadJson(f).root).new_users_temp_dict)
    ELSE <<>>

\* the loop of setup_users_endpoint storing nothing for an id the store has
RECURSIVE SetupFrom_KeepExisting(_, _)
SetupFrom_KeepExisting(acc, users) ==
    IF users = <<>> THEN acc
    ELSE LET in == Head(users)
             r == User_init(in[1], in[2], in[3])
         IN  SetupFrom_KeepExisting(
                 IF r.exc # "ok" THEN [acc EXCEPT !.skipped_count = @ + 1]
                 ELSE IF DictHas(acc.store, r.user.id)
                      THEN [acc EXCEPT !.loaded_count = @ + 1]
                      ELSE [acc EXCEPT !.store = DictSet(@, r.user.id, r.user),
                                       !.loaded_count = @ + 1],
                 Tail(users))

\* src/api.py lines 96-109: the loop of setup_users_endpoint over the payload
RECURSIVE SetupFrom(_, _)
SetupFrom(acc, users) ==
    IF users = <<>> THEN acc
    ELSE LET in == Head(users)
             r == User_init(in[1], in[2], in[3])
         IN  SetupFrom(
                 IF r.exc = "ok"
                 THEN [acc EXCEPT !.store = DictSet(@, r.user.id, r.user),
                                  !.loaded_count = @ + 1]
                 ELSE [acc EXCEPT !.skipped_count = @ + 1],
                 Tail(users))

\* ------------------------------------------------------------------- inputs

Walt == PyStr(<<"W", "a", "l", "t">>)

Jess == PyStr(<<"J", "e", "s", "s">>)

PaddedJess == PyStr(<<" ", "J", "e", "s", "s", " ">>)

Bob == PyStr(<<"B", "o", "b">>)

MailW == PyStr(<<"w", "@", "x">>)

MailJ == PyStr(<<"j", "@", "x">>)

EmptyStr == PyStr(<<>>)

\* an email of two lines: _validate_email looks at the type only
MailTwoLines == PyStr(<<"j", "\n", "x">>)

\* the (id, name, email) triples a caller passes to User(...)
UserInputs ==
    { <<PyInt(1), Walt, MailW>>,
      <<PyInt(1), PaddedJess, EmptyStr>>,
      <<PyInt(2), Jess, MailJ>>,
      <<PyInt(0), Walt, MailW>>,
      <<PyInt(2), Bob, MailJ>> }

\* the payloads of POST /test/setup-users: a name of three letters passes the
\* schema of src/models.py and fails User(...)
SetupInputs ==
    { <<>>,
      << <<PyInt(2), Jess, MailJ>>, <<PyInt(3), Bob, MailJ>> >> }

\* the ids a caller passes to remove_user_by_id and to get_user
RemoveInputs == {PyInt(1), PyInt(2)}

Key(s) == PyStr(s)

Entry(id, name, email) == PyObj([id |-> id, name |-> name, email |-> email])

\* two users, as the fixture json_with_users_path writes them
TwoUsersFile ==
    JsonFile(PyDict(<< [k |-> Key(<<"1">>), v |-> Entry(PyInt(1), Walt, MailW)],
                       [k |-> Key(<<"2">>), v |-> Entry(PyInt(2), Jess, MailJ)] >>))

\* a value that is no object, a key that differs from the id, one good entry
\* (its name padded, its email of two lines)
MixedFile ==
    JsonFile(PyDict(<< [k |-> Key(<<"4", "4">>), v |-> PyStr(<<"u">>)],
                       [k |-> Key(<<"3", "4", "1">>), v |-> Entry(PyInt(89), Walt, MailW)],
                       [k |-> Key(<<"2">>), v |-> Entry(PyInt(2), PaddedJess, MailTwoLines)] >>))

\* the other ways an entry fails: a key that is no number, an id of the wrong
\* type, a missing name, a name that is too short
BadEntriesFile ==
    JsonFile(PyDict(<< [k |-> Key(<<"x">>), v |-> Entry(PyInt(1), Walt, MailW)],
                       [k |-> Key(<<"1">>), v |-> Entry(PyStr(<<"1">>), Walt, MailW)],
                       [k |-> Key(<<"2">>), v |-> PyObj([id |-> PyInt(2), email |-> MailJ])],
                       [k |-> Key(<<"3">>), v |-> Entry(PyInt(3), Bob, PyNone)] >>))

\* two keys that int() maps to the same id
AliasFile ==
    JsonFile(PyDict(<< [k |-> Key(<<"1">>), v |-> Entry(PyInt(1), Walt, MailW)],
                       [k |-> Key(<<"0", "1">>), v |-> Entry(PyInt(1), Jess, MailJ)] >>))

\* an id that is the JSON literal true
BoolIdFile ==
    JsonFile(PyDict(<< [k |-> Key(<<"1">>), v |-> Entry(PyBool(TRUE), Walt, MailW)] >>))

EmptyObjectFile == JsonFile(PyDict(<<>>))

ArrayFile == JsonFile(PyList)

\* what data/users.json may hold when the service starts
FileInputs ==
    { AbsentFile, DirFile, UndecodableFile, MalformedFile, ArrayFile, EmptyObjectFile,
      TwoUsersFile, MixedFile, BadEntriesFile, AliasFile, BoolIdFile }

\* -------------------------------------------------------------------- state

Threads == {"t1", "t2"}

NoThread == "none"

\* the number of calls made on the service in one run
MaxCalls == 2

VARIABLES
    users_list,   \* UserService.users_list: the items of the dict
    lock,         \* UserService._lock: the thread that holds it, or NoThread
    file,         \* what the path data/users.json holds
    pc,           \* where each thread is in the call it is running
    call,         \* the call each thread is running or ran last
    loc,          \* the local variables of that call
    ret,          \* how each thread's last call ended: "ok" or the exception
    ncalls,       \* the calls started so far
    store0        \* the store as the service started

vars == <<users_list, lock, file, pc, call, loc, ret, ncalls, store0>>

NoLocals ==
    [new_users_temp_dict |-> <<>>, users_failed_in_preparation |-> 0,
     skipped |-> <<>>, loaded_raw_data |-> PyNone, before |-> <<>>,
     users_to_export |-> <<>>, users |-> <<>>, user |-> PyNone,
     loaded_count |-> 0, skipped_count |-> 0, output |-> <<>>]

\* UserService.__init__ (lines 144-148), either used as it is or followed by
\* the preload of src/api.py lines 66-79
Init ==
    /\ file \in FileInputs
    /\ users_list \in {<<>>, Preload(file)}
    /\ store0 = users_list
    /\ lock = NoThread
    /\ pc = [t \in Threads |-> "idle"]
    /\ call = [t \in Threads |-> [op |-> "none"]]
    /\ loc = [t \in Threads |-> NoLocals]
    /\ ret = [t \in Threads |-> "none"]
    /\ ncalls = 0

\* a thread starts a call: it is idle and the run has calls left
Start(t, c, at) ==
    /\ pc[t] = "idle"
    /\ ncalls < MaxCalls
    /\ ncalls' = ncalls + 1
    /\ call' = [call EXCEPT ![t] = c]
    /\ loc' = [loc EXCEPT ![t] = NoLocals]
    /\ ret' = [ret EXCEPT ![t] = "none"]
    /\ pc' = [pc EXCEPT ![t] = at]

\* a thread starts a call that raises r before it does anything else
Raise(t, c, r) ==
    /\ pc[t] = "idle"
    /\ ncalls < MaxCalls
    /\ ncalls' = ncalls + 1
    /\ call' = [call EXCEPT ![t] = c]
    /\ loc' = [loc EXCEPT ![t] = NoLocals]
    /\ ret' = [ret EXCEPT ![t] = r]
    /\ UNCHANGED pc

\* a thread's call ends with result r
Return(t, r) ==
    /\ ret' = [ret EXCEPT ![t] = r]
    /\ pc' = [pc EXCEPT ![t] = "idle"]

\* with self._lock: entering blocks until the lock is free
Acquire(t) == lock = NoThread /\ lock' = t

\* with self._lock: leaving, normally or by an exception, releases it
Release(t) == lock' = NoThread

\* ----------------------------------------------------------------- add_user

\* src/api.py create_user (lines 159-171): User(...) is built first; when it
\* raises the call ends there, otherwise add_user(user) runs up to its
\* "with self._lock" (lines 160-168)
create_user(t) ==
    \E in \in UserInputs :
        LET r == User_init(in[1], in[2], in[3])
        IN  IF r.exc = "ok"
            THEN /\ Start(t, [op |-> "add_user", user |-> r.user], "add_lock")
                 /\ UNCHANGED <<users_list, lock, file, store0>>
            ELSE /\ Raise(t, [op |-> "User", args |-> in], r.exc)
                 /\ UNCHANGED <<users_list, lock, file, store0>>

\* add_user without the isinstance test of lines 161-164: the log line of
\* 166-168 reads user.id and raises AttributeError
add_user_non_user_unchecked(t) ==
    /\ \E x \in {PyStr(<<"u", "s", "e", "r", "1">>)} :
           Raise(t, [op |-> "add_user_non_user", arg |-> x], "AttributeError")
    /\ UNCHANGED <<users_list, lock, file, store0>>

\* what a caller passes to add_user in place of a User: the str of
\* test_add_non_user_object
NonUserInputs == {PyStr(<<"u", "s", "e", "r", "1">>)}

\* lines 160-164 for an argument that is no User: TypeError is raised before
\* the with statement of line 169 is reached
add_user_non_user(t) ==
    /\ \E x \in NonUserInputs :
           Raise(t, [op |-> "add_user_non_user", arg |-> x], "TypeError")
    /\ UNCHANGED <<users_list, lock, file, store0>>

\* add_user without "with self._lock"
add_user_unlocked(t) ==
    /\ pc[t] = "add_lock"
    /\ pc' = [pc EXCEPT ![t] = "add_check"]
    /\ UNCHANGED <<users_list, lock, file, call, loc, ret, ncalls, store0>>

\* line 169
add_user_lock(t) ==
    /\ pc[t] = "add_lock"
    /\ Acquire(t)
    /\ pc' = [pc EXCEPT ![t] = "add_check"]
    /\ UNCHANGED <<users_list, file, call, loc, ret, ncalls, store0>>

\* add_user raising DuplicateUserError whenever the store holds any user
add_user_check_nonempty(t) ==
    /\ pc[t] = "add_check"
    /\ IF users_list # <<>>
       THEN Return(t, "DuplicateUserError") /\ Release(t)
       ELSE pc' = [pc EXCEPT ![t] = "add_insert"] /\ UNCHANGED <<ret, lock>>
    /\ UNCHANGED <<users_list, file, call, loc, ncalls, store0>>

\* add_user without the membership test of line 171
add_user_check_skipped(t) ==
    /\ pc[t] = "add_check"
    /\ pc' = [pc EXCEPT ![t] = "add_insert"]
    /\ UNCHANGED <<users_list, lock, file, call, loc, ret, ncalls, store0>>

\* add_user leaving through DuplicateUserError with the lock still held
add_user_check_keeps_lock(t) ==
    /\ pc[t] = "add_check"
    /\ IF DictHas(users_list, call[t].user.id)
       THEN Return(t, "DuplicateUserError") /\ UNCHANGED lock
       ELSE pc' = [pc EXCEPT ![t] = "add_insert"] /\ UNCHANGED <<ret, lock>>
    /\ UNCHANGED <<users_list, file, call, loc, ncalls, store0>>

\* lines 171-174
add_user_check(t) ==
    /\ pc[t] = "add_check"
    /\ IF DictHas(users_list, call[t].user.id)
       THEN Return(t, "DuplicateUserError") /\ Release(t)
       ELSE pc' = [pc EXCEPT ![t] = "add_insert"] /\ UNCHANGED <<ret, lock>>
    /\ UNCHANGED <<users_list, file, call, loc, ncalls, store0>>

\* lines 176-177
add_user_insert(t) ==
    /\ pc[t] = "add_insert"
    /\ users_list' = DictSet(users_list, call[t].user.id, call[t].user)
    /\ Release(t)
    /\ Return(t, "ok")
    /\ UNCHANGED <<file, call, loc, ncalls, store0>>

\* -------------------------------------------------------- remove_user_by_id

\* lines 179-187
remove_user_by_id(t) ==
    /\ \E id \in RemoveInputs :
           Start(t, [op |-> "remove_user_by_id", user_id |-> id], "rm_lock")
    /\ UNCHANGED <<users_list, lock, file, store0>>

\* remove_user_by_id without "with self._lock"
remove_user_unlocked(t) ==
    /\ pc[t] = "rm_lock"
    /\ pc' = [pc EXCEPT ![t] = "rm_pop"]
    /\ UNCHANGED <<users_list, lock, file, call, loc, ret, ncalls, store0>>

\* line 188
remove_user_lock(t) ==
    /\ pc[t] = "rm_lock"
    /\ Acquire(t)
    /\ pc' = [pc EXCEPT ![t] = "rm_pop"]
    /\ UNCHANGED <<users_list, file, call, loc, ret, ncalls, store0>>

\* remove_user_by_id without the raise of lines 195-198
remove_user_pop_silent(t) ==
    /\ pc[t] = "rm_pop"
    /\ users_list' = DictDel(users_list, call[t].user_id)
    /\ Release(t)
    /\ Return(t, "ok")
    /\ UNCHANGED <<file, call, loc, ncalls, store0>>

\* lines 192-198: pop(user_id, None); a User is never falsy
remove_user_pop(t) ==
    /\ pc[t] = "rm_pop"
    /\ users_list' = DictDel(users_list, call[t].user_id)
    /\ Release(t)
    /\ Return(t, IF DictHas(users_list, call[t].user_id)
                 THEN "ok" ELSE "UserNotFoundError")
    /\ UNCHANGED <<file, call, loc, ncalls, store0>>

\* ----------------------------------------------------- load_users_from_json

\* lines 200-220
load_users_from_json(t) ==
    /\ \E c \in BOOLEAN :
           Start(t, [op |-> "load_users_from_json", clear_users_list |-> c],
                 "load_read")
    /\ UNCHANGED <<users_list, lock, file, store0>>

\* lines 222-283: the file is read and parsed, the root checked and the
\* entries prepared, all without the lock
load_read(t) ==
    /\ pc[t] = "load_read"
    /\ \E r \in {ReadJson(file)} :
           IF r.exc # "ok"
           THEN Return(t, r.exc) /\ UNCHANGED loc
           ELSE /\ \E p \in {Prepare(r.root)} :
                       loc' = [loc EXCEPT ![t] =
                           [@ EXCEPT !.loaded_raw_data = r.root,
                                     !.new_users_temp_dict = p.new_users_temp_dict,
                                     !.users_failed_in_preparation =
                                         p.users_failed_in_preparation,
                                     !.skipped = p.skipped]]
                /\ pc' = [pc EXCEPT ![t] = "load_lock"]
                /\ UNCHANGED ret
    /\ UNCHANGED <<users_list, lock, file, call, ncalls, store0>>

\* the apply of load_users_from_json without "with self._lock"
load_unlocked(t) ==
    /\ pc[t] = "load_lock"
    /\ loc' = [loc EXCEPT ![t].before = users_list]
    /\ pc' = [pc EXCEPT ![t] = "load_clear"]
    /\ UNCHANGED <<users_list, lock, file, call, ret, ncalls, store0>>

\* line 285; before remembers the store the apply starts from
load_lock(t) ==
    /\ pc[t] = "load_lock"
    /\ Acquire(t)
    /\ loc' = [loc EXCEPT ![t].before = users_list]
    /\ pc' = [pc EXCEPT ![t] = "load_clear"]
    /\ UNCHANGED <<users_list, file, call, ret, ncalls, store0>>

\* lines 290-292
load_clear(t) ==
    /\ pc[t] = "load_clear"
    /\ users_list' = ClearStep(users_list, call[t].clear_users_list)
    /\ pc' = [pc EXCEPT ![t] = "load_update"]
    /\ UNCHANGED <<lock, file, call, loc, ret, ncalls, store0>>

\* lines 294-308
load_update(t) ==
    /\ pc[t] = "load_update"
    /\ users_list' = UpdateStep(users_list, loc[t].new_users_temp_dict)
    /\ Release(t)
    /\ Return(t, "ok")
    /\ UNCHANGED <<file, call, loc, ncalls, store0>>

\* -------------------------------------------------------- export_users_json

\* lines 310-328
export_users_json(t) ==
    /\ Start(t, [op |-> "export_users_json"], "exp_lock")
    /\ UNCHANGED <<users_list, lock, file, store0>>

\* line 330
export_lock(t) ==
    /\ pc[t] = "exp_lock"
    /\ Acquire(t)
    /\ pc' = [pc EXCEPT ![t] = "exp_snapshot"]
    /\ UNCHANGED <<users_list, file, call, loc, ret, ncalls, store0>>

\* export_users_json with the file written inside the with block
export_snapshot_keeps_lock(t) ==
    /\ pc[t] = "exp_snapshot"
    /\ loc' = [loc EXCEPT ![t] = [@ EXCEPT !.users_to_export = Snapshot(users_list),
                                           !.before = users_list]]
    /\ IF Snapshot(users_list) = <<>>
       THEN Return(t, "ok") /\ Release(t)
       ELSE pc' = [pc EXCEPT ![t] = "exp_open"] /\ UNCHANGED <<ret, lock>>
    /\ UNCHANGED <<users_list, file, call, ncalls, store0>>

\* export_users_json without the empty check of lines 337-339
export_snapshot_no_empty_check(t) ==
    /\ pc[t] = "exp_snapshot"
    /\ loc' = [loc EXCEPT ![t] = [@ EXCEPT !.users_to_export = Snapshot(users_list),
                                           !.before = users_list]]
    /\ Release(t)
    /\ pc' = [pc EXCEPT ![t] = "exp_open"]
    /\ UNCHANGED <<users_list, file, call, ret, ncalls, store0>>

\* lines 332-339: the snapshot, the end of the with block, the empty check;
\* before remembers the store the snapshot was taken from
export_snapshot(t) ==
    /\ pc[t] = "exp_snapshot"
    /\ loc' = [loc EXCEPT ![t] = [@ EXCEPT !.users_to_export = Snapshot(users_list),
                                           !.before = users_list]]
    /\ Release(t)
    /\ IF Snapshot(users_list) = <<>>
       THEN Return(t, "ok")
       ELSE pc' = [pc EXCEPT ![t] = "exp_open"] /\ UNCHANGED ret
    /\ UNCHANGED <<users_list, file, call, ncalls, store0>>

\* export_users_json without the handler of lines 373-383: the OSError of
\* open() leaves the call as it is
export_open_unwrapped(t) ==
    /\ pc[t] = "exp_open"
    /\ IF file.kind = "dir"
       THEN Return(t, "OSError") /\ UNCHANGED file
       ELSE /\ file' = MalformedFile
            /\ pc' = [pc EXCEPT ![t] = "exp_dump"]
            /\ UNCHANGED ret
    /\ UNCHANGED <<users_list, lock, call, loc, ncalls, store0>>

\* line 342: open(file_path, "w") fails with an OSError, which lines 373-383
\* turn into DataFileWriteError, or truncates the file
export_open(t) ==
    /\ pc[t] = "exp_open"
    /\ IF file.kind = "dir"
       THEN Return(t, "DataFileWriteError") /\ UNCHANGED file
       ELSE /\ file' = MalformedFile
            /\ pc' = [pc EXCEPT ![t] = "exp_dump"]
            /\ UNCHANGED ret
    /\ UNCHANGED <<users_list, lock, call, loc, ncalls, store0>>

\* line 343 dumping the live mapping in place of the snapshot
ExportData_Live(t) == Snapshot(users_list)

\* the data line 343 writes
ExportData(t) == loc[t].users_to_export

\* the characters json.dump writes for the characters s of a str, without
\* the quotes: a line break, a tab, a quote or a backslash takes two
RECURSIVE JsonStrLen(_)
JsonStrLen(s) ==
    IF s = <<>> THEN 0
    ELSE (IF Head(s) \in {"\n", "\t", "\"", "\\"} THEN 2 ELSE 1) + JsonStrLen(Tail(s))

\* the characters json.dump writes for a value
JsonTextLen(v) ==
    IF v.t = "int" THEN Len(IntToStr(v.n))
    ELSE IF v.t = "bool" THEN (IF v.b THEN 4 ELSE 5)
    ELSE IF v.t = "str" THEN 2 + JsonStrLen(v.s)
    ELSE 4

\* the characters json.dump(indent=4) writes for the entries of the root:
\* for each one the line of its key, the lines of id, name and email and the
\* closing line, with ",\n" after every entry but the last
RECURSIVE EntriesLen(_)
EntriesLen(items) ==
    IF items = <<>> THEN 0
    ELSE LET e == Head(items)
         IN  65 + JsonTextLen(e.k) + JsonTextLen(e.v.f.id)
                + JsonTextLen(e.v.f.name) + JsonTextLen(e.v.f.email)
                + (IF Len(items) > 1 THEN 2 ELSE 0)
                + EntriesLen(Tail(items))

\* the length of the text json.dump(indent=4) writes for a root of users
DumpLen(root) ==
    IF root.items = <<>> THEN 2 ELSE 2 + EntriesLen(root.items) + 2

\* a dump that replaces whatever the file holds
WriteOver_Replace(f, root) == JsonFile(root)

\* line 343 on the file object of line 342: the text goes to the start of
\* the file, which this call's open() left empty; when another export has
\* written a longer text since, the rest of that text stays behind the new
\* one and the file is no JSON (between a call's open() and its dump the
\* file holds nothing or the dump of another export)
WriteOver(f, root) ==
    IF f = MalformedFile THEN JsonFile(root)
    ELSE IF DumpLen(root) >= DumpLen(f.root) THEN JsonFile(root)
    ELSE MalformedFile

\* lines 343-344
export_dump(t) ==
    /\ pc[t] = "exp_dump"
    /\ file' = WriteOver(file, DumpJson(ExportData(t)))
    /\ Return(t, "ok")
    /\ UNCHANGED <<users_list, lock, call, loc, ncalls, store0>>

\* ------------------------------------------------------------ get_all_users

\* src/api.py lines 144-146
get_all_users(t) ==
    /\ Start(t, [op |-> "get_all_users"], "list_lock")
    /\ UNCHANGED <<users_list, lock, file, store0>>

\* src/api.py line 147
get_all_users_lock(t) ==
    /\ pc[t] = "list_lock"
    /\ Acquire(t)
    /\ pc' = [pc EXCEPT ![t] = "list_read"]
    /\ UNCHANGED <<users_list, file, call, loc, ret, ncalls, store0>>

\* src/api.py lines 148-149
get_all_users_read(t) ==
    /\ pc[t] = "list_read"
    /\ loc' = [loc EXCEPT ![t].users = DictValues(users_list)]
    /\ Release(t)
    /\ Return(t, "ok")
    /\ UNCHANGED <<users_list, file, call, ncalls, store0>>

\* ----------------------------------------------------------------- get_user

\* src/api.py lines 180-184
get_user(t) ==
    /\ \E id \in RemoveInputs :
           Start(t, [op |-> "get_user", user_id |-> id], "get_lock")
    /\ UNCHANGED <<users_list, lock, file, store0>>

\* get_user without "with service._lock"
get_user_unlocked(t) ==
    /\ pc[t] = "get_lock"
    /\ pc' = [pc EXCEPT ![t] = "get_read"]
    /\ UNCHANGED <<users_list, lock, file, call, loc, ret, ncalls, store0>>

\* get_user taking the user out of the mapping in place of looking it up
get_user_read_pop(t) ==
    /\ pc[t] = "get_read"
    /\ loc' = [loc EXCEPT ![t].user = DictGetOrNone(users_list, call[t].user_id)]
    /\ users_list' = DictDel(users_list, call[t].user_id)
    /\ Release(t)
    /\ Return(t, IF DictHas(users_list, call[t].user_id)
                 THEN "ok" ELSE "HTTPException")
    /\ UNCHANGED <<file, call, ncalls, store0>>

\* src/api.py line 185
get_user_lock(t) ==
    /\ pc[t] = "get_lock"
    /\ Acquire(t)
    /\ pc' = [pc EXCEPT ![t] = "get_read"]
    /\ UNCHANGED <<users_list, file, call, loc, ret, ncalls, store0>>

\* src/api.py lines 186-195: the lookup, then 404 when it gave None
get_user_read(t) ==
    /\ pc[t] = "get_read"
    /\ loc' = [loc EXCEPT ![t].user = DictGetOrNone(users_list, call[t].user_id)]
    /\ Release(t)
    /\ Return(t, IF DictHas(users_list, call[t].user_id)
                 THEN "ok" ELSE "HTTPException")
    /\ UNCHANGED <<users_list, file, call, ncalls, store0>>

\* ------------------------------------------------------- UserService.__str__

\* line 385
UserService_str(t) ==
    /\ Start(t, [op |-> "__str__"], "str_lock")
    /\ UNCHANGED <<users_list, lock, file, store0>>

\* line 387
UserService_str_lock(t) ==
    /\ pc[t] = "str_lock"
    /\ Acquire(t)
    /\ pc' = [pc EXCEPT ![t] = "str_read"]
    /\ UNCHANGED <<users_list, file, call, loc, ret, ncalls, store0>>

\* lines 388-397: the list is taken inside the with block; the rendering
\* that follows reads only that list and the users in it, which no operation
\* of the service changes; output is the str returned
UserService_str_read(t) ==
    /\ pc[t] = "str_read"
    /\ loc' = [loc EXCEPT ![t] = [@ EXCEPT !.users = DictValues(users_list),
                                           !.output = Render(DictValues(users_list))]]
    /\ Release(t)
    /\ Return(t, "ok")
    /\ UNCHANGED <<users_list, file, call, ncalls, store0>>

\* ------------------------------------------------------ setup_users_endpoint

\* src/api.py lines 88-92
setup_users_endpoint(t) ==
    /\ \E p \in SetupInputs :
           Start(t, [op |-> "setup_users_endpoint", users |-> p], "setup_lock")
    /\ UNCHANGED <<users_list, lock, file, store0>>

\* src/api.py line 93
setup_users_lock(t) ==
    /\ pc[t] = "setup_lock"
    /\ Acquire(t)
    /\ pc' = [pc EXCEPT ![t] = "setup_store"]
    /\ UNCHANGED <<users_list, file, call, loc, ret, ncalls, store0>>

\* src/api.py lines 94-115: the loop, all of it inside the with block
setup_users_store(t) ==
    /\ pc[t] = "setup_store"
    /\ \E r \in {SetupFrom([store |-> users_list, loaded_count |-> 0,
                               skipped_count |-> 0], call[t].users)} :
           /\ users_list' = r.store
           /\ loc' = [loc EXCEPT ![t] = [@ EXCEPT !.loaded_count = r.loaded_count,
                                                  !.skipped_count = r.skipped_count]]
    /\ Release(t)
    /\ Return(t, "ok")
    /\ UNCHANGED <<file, call, ncalls, store0>>

\* -------------------------------------------------------------- clear_users

\* src/api.py lines 117-119
clear_users(t) ==
    /\ Start(t, [op |-> "clear_users"], "clear_lock")
    /\ UNCHANGED <<users_list, lock, file, store0>>

\* src/api.py line 120
clear_users_lock(t) ==
    /\ pc[t] = "clear_lock"
    /\ Acquire(t)
    /\ pc' = [pc EXCEPT ![t] = "clear_store"]
    /\ UNCHANGED <<users_list, file, call, loc, ret, ncalls, store0>>

\* src/api.py lines 121-125
clear_users_clear(t) ==
    /\ pc[t] = "clear_store"
    /\ users_list' = <<>>
    /\ Release(t)
    /\ Return(t, "ok")
    /\ UNCHANGED <<file, call, loc, ncalls, store0>>

\* ---------------------------------------------------------------------- Next

Next ==
    \E t \in Threads :
        \/ create_user(t)
        \/ add_user_non_user(t)
        \/ add_user_lock(t)
        \/ add_user_check(t)
        \/ add_user_insert(t)
        \/ remove_user_by_id(t)
        \/ remove_user_lock(t)
        \/ remove_user_pop(t)
        \/ load_users_from_json(t)
        \/ load_read(t)
        \/ load_lock(t)
        \/ load_clear(t)
        \/ load_update(t)
        \/ export_users_json(t)
        \/ export_lock(t)
        \/ export_snapshot(t)
        \/ export_open(t)
        \/ export_dump(t)
        \/ get_all_users(t)
        \/ get_all_users_lock(t)
        \/ get_all_users_read(t)
        \/ get_user(t)
        \/ get_user_lock(t)
        \/ get_user_read(t)
        \/ UserService_str(t)
        \/ UserService_str_lock(t)
        \/ UserService_str_read(t)
        \/ setup_users_endpoint(t)
        \/ setup_users_lock(t)
        \/ setup_users_store(t)
        \/ clear_users(t)
        \/ clear_users_lock(t)
        \/ clear_users_clear(t)

\* a step of thread t inside a call it has started
Progress(t) ==
    /\ pc[t] # "idle"
    /\ \/ add_user_lock(t)
       \/ add_user_check(t)
       \/ add_user_insert(t)
       \/ remove_user_lock(t)
       \/ remove_user_pop(t)
       \/ load_read(t)
       \/ load_lock(t)
       \/ load_clear(t)
       \/ load_update(t)
       \/ export_lock(t)
       \/ export_snapshot(t)
       \/ export_open(t)
       \/ export_dump(t)
       \/ get_all_users_lock(t)
       \/ get_all_users_read(t)
       \/ get_user_lock(t)
       \/ get_user_read(t)
       \/ UserService_str_lock(t)
       \/ UserService_str_read(t)
       \/ setup_users_lock(t)
       \/ setup_users_store(t)
       \/ clear_users_lock(t)
       \/ clear_users_clear(t)

Spec == Init /\ [][Next]_vars

\* the service starts over a path that is absent, a directory, a JSON array
\* or a file of two users: one file for each way a load begins and ends
FairInit == Init /\ file \in {AbsentFile, DirFile, ArrayFile, TwoUsersFile}

\* every thread that is inside a call keeps being scheduled: a step it can
\* take for good is taken
FairSpec == FairInit /\ [][Next]_vars /\ \A t \in Threads : WF_vars(Progress(t))

\* ------------------------------------------------------- User construction

\* a name of n letters
Repeat(c, n) == [i \in 1..n |-> c]

\* the ids given to User(...): below, at and above the boundary 1, and values
\* that are no int
IdInputs ==
    {PyInt(0 - 1), PyInt(0), PyInt(1), PyInt(2), PyStr(<<"1">>), PyNone,
     PyBool(TRUE)}

\* the names given to User(...): lengths 3, 4, 70 and 71 with and without
\* padding, the empty and the blank name, characters inside and outside the
\* pattern, and values that are no str
NameInputs ==
    {Bob, Walt, PaddedJess,
     PyStr(<<" ">> \o Bob.s \o <<" ">>),
     PyStr(Repeat("a", 70)), PyStr(Repeat("a", 71)),
     PyStr(<<" ", "\t">> \o Repeat("a", 70) \o <<"\n">>),
     PyStr(<<" ">> \o Repeat("a", 71)),
     EmptyStr, PyStr(<<" ", " ", " ">>),
     PyStr(<<"O", "'", "N", "-", "a", ".", " ", "b">>),
     PyStr(<<"W", "@", "l", "t">>), PyStr(<<"W", "a", "\t", "l", "t">>),
     PyStr(<<"W", "a", "l", "7">>),
     PyInt(123), PyNone}

\* the emails given to User(...)
EmailInputs == {MailW, EmptyStr, PyNone}

\* the number of User(...) constructions in one run
MaxUsers == 1

\* lines 103-126: User(id, name, email); ret is the exception raised or "ok",
\* and loc.user the attributes of the object when there is one
User(t) ==
    \E id \in IdInputs, name \in NameInputs, email \in EmailInputs :
        \E r \in {User_init(id, name, email)} :
            /\ pc[t] = "idle"
            /\ ncalls < MaxUsers
            /\ ncalls' = ncalls + 1
            /\ call' = [call EXCEPT ![t] = [op |-> "User", args |-> <<id, name, email>>]]
            /\ loc' = [loc EXCEPT ![t] =
                          [NoLocals EXCEPT !.user = IF r.exc = "ok" THEN r.user
                                                    ELSE PyNone]]
            /\ ret' = [ret EXCEPT ![t] = r.exc]
            /\ UNCHANGED <<users_list, lock, file, pc, store0>>

UserInit ==
    /\ file = AbsentFile
    /\ users_list = <<>>
    /\ store0 = <<>>
    /\ lock = NoThread
    /\ pc = [t \in Threads |-> "idle"]
    /\ call = [t \in Threads |-> [op |-> "none"]]
    /\ loc = [t \in Threads |-> NoLocals]
    /\ ret = [t \in Threads |-> "none"]
    /\ ncalls = 0

\* construction touches nothing shared: one thread is enough
UserNext == User("t1")

\* constructions of User objects alone, from every combination of the inputs
UserSpec == UserInit /\ [][UserNext]_vars

\* ------------------------------------------- a caller's reference to a User

\* the assignments a caller makes to an attribute of a User object it holds;
\* none of them passes through the validation of __init__
SetattrInputs ==
    { [attr |-> "id", value |-> PyInt(7)],
      [attr |-> "name", value |-> EmptyStr],
      [attr |-> "email", value |-> PyNone] }

\* the caller whose add_user(user) has returned assigns to an attribute of
\* user.  User keeps id, name and email as plain instance attributes (lines
\* 119-121) and add_user stores the object itself (line 176), so the entry
\* the store holds under the id the object had is that same object and
\* shows the assignment; the lock is not involved
User_setattr(t) ==
    /\ pc[t] = "idle"
    /\ call[t].op = "add_user" /\ ret[t] = "ok"
    /\ \E a \in SetattrInputs :
           LET obj == [call[t].user EXCEPT ![a.attr] = a.value]
               i == DictIndex(users_list, call[t].user.id)
           IN  /\ call' = [call EXCEPT ![t] =
                              [op |-> "setattr", key |-> call[t].user.id,
                               attr |-> a.attr, user |-> obj]]
               /\ users_list' = IF i # 0 /\ users_list[i].v = call[t].user
                                THEN [users_list EXCEPT ![i].v = obj]
                                ELSE users_list
    /\ UNCHANGED <<lock, file, pc, loc, ret, ncalls, store0>>

\* callers that add users, look them up and keep the objects they added: no
\* entry is removed or replaced, so the entry under an id is the object of
\* the caller whose add of that id succeeded
SetattrNext ==
    \E t \in Threads :
        \/ create_user(t)
        \/ add_user_lock(t)
        \/ add_user_check(t)
        \/ add_user_insert(t)
        \/ get_user(t)
        \/ get_user_lock(t)
        \/ get_user_read(t)
        \/ User_setattr(t)

SetattrSpec == Init /\ [][SetattrNext]_vars

\* ------------------------------------------- exports of one path side by side

\* the number of calls in a run of exports and adds
MaxExportCalls == 3

\* the service preloaded from a file of users (src/api.py lines 66-79);
\* ncalls starts so far below MaxCalls that a run has MaxExportCalls calls
ExportInit ==
    /\ file \in {AliasFile, TwoUsersFile}
    /\ users_list = Preload(file)
    /\ store0 = users_list
    /\ lock = NoThread
    /\ pc = [t \in Threads |-> "idle"]
    /\ call = [t \in Threads |-> [op |-> "none"]]
    /\ loc = [t \in Threads |-> NoLocals]
    /\ ret = [t \in Threads |-> "none"]
    /\ ncalls = MaxCalls - MaxExportCalls

\* the steps of create_user with add_user and of export_users_json
ExportNext ==
    \E t \in Threads :
        \/ create_user(t)
        \/ add_user_lock(t)
        \/ add_user_check(t)
        \/ add_user_insert(t)
        \/ export_users_json(t)
        \/ export_lock(t)
        \/ export_snapshot(t)
        \/ export_open(t)
        \/ export_dump(t)

\* threads that add users and export the store to one path
ExportSpec == ExportInit /\ [][ExportNext]_vars

\* ------------------------------------------------------------------- claims

Other(t) == CHOOSE u \in Threads : u # t

Idle(t) == pc[t] = "idle"

\* thread t has run add_user to its end
AddDone(t) == Idle(t) /\ call[t].op = "add_user"

\* C1: when the only two calls of a run are add_user calls by two threads
\* with equal ids, and the id was not in the store before them, then once both
\* have returned exactly one has succeeded, the other has failed with
\* DuplicateUserError, and the store maps the id to the user of the one that
\* succeeded.
C1_SameIdAddsOneWins ==
    \A t \in Threads :
        LET u == Other(t)
        IN  ( /\ ncalls = 2
              /\ AddDone(t) /\ AddDone(u)
              /\ PyEq(call[t].user.id, call[u].user.id)
              /\ ~DictHas(store0, call[t].user.id) )
            => \E w \in {t, u} :
                   /\ ret[w] = "ok"
                   /\ ret[Other(w)] = "DuplicateUserError"
                   /\ DictHas(users_list, call[w].user.id)
                   /\ DictGet(users_list, call[w].user.id) = call[w].user

\* two adds of different users with the same id have both returned, and the
\* second thread won
C1_Witness ==
    /\ ncalls = 2
    /\ AddDone("t1") /\ AddDone("t2")
    /\ PyEq(call["t1"].user.id, call["t2"].user.id)
    /\ call["t1"].user # call["t2"].user
    /\ ~DictHas(store0, call["t1"].user.id)
    /\ ret["t1"] = "DuplicateUserError" /\ ret["t2"] = "ok"
    /\ DictGet(users_list, call["t2"].user.id) = call["t2"].user

\* C2: add_user with a user whose id is a key of the store raises
\* DuplicateUserError at its membership test and the call ends there with the
\* store as it was; in particular, when it is the only call of a run, the
\* store is still the one the run started with (same keys, same order, same
\* users: nothing is overwritten).
C2_DuplicateStep ==
    \A t \in Threads :
        ( /\ pc[t] = "add_check"
          /\ pc'[t] # "add_check"
          /\ DictHas(users_list, call[t].user.id) )
        => /\ pc'[t] = "idle"
           /\ ret'[t] = "DuplicateUserError"
           /\ users_list' = users_list

C2_DuplicateAlone ==
    \A t \in Threads :
        (ncalls = 1 /\ AddDone(t) /\ DictHas(store0, call[t].user.id))
        => ret[t] = "DuplicateUserError" /\ users_list = store0

C2_DuplicateLeavesStore == [][C2_DuplicateStep]_vars /\ []C2_DuplicateAlone

\* a duplicate add of a user that differs from the stored one has failed
C2_Witness ==
    \E t \in Threads :
        /\ ncalls = 1 /\ AddDone(t)
        /\ ret[t] = "DuplicateUserError"
        /\ DictHas(users_list, call[t].user.id)
        /\ DictGet(users_list, call[t].user.id) # call[t].user

\* the store the apply of thread t's load ends with, from the store it began with
ApplyResult(t) ==
    UpdateStep(ClearStep(loc[t].before, call[t].clear_users_list),
               loc[t].new_users_temp_dict)

\* thread t is inside a with-block that reads the mapping
Reading(t) == pc[t] \in {"list_read", "exp_snapshot", "get_read", "str_read"}

\* thread t's load has begun its apply and not finished it
Applying(t) == pc[t] \in {"load_clear", "load_update"}

\* C3: while the store is neither the store a load's apply began with nor the
\* store that apply ends with (it is cleared and not yet merged), no other
\* thread is inside a lock-protected read of the mapping (list, export
\* snapshot): a reader sees the store before the apply or after all of it.
C3_ApplyAtomicForReaders ==
    \A t \in Threads :
        (Applying(t) /\ users_list \notin {loc[t].before, ApplyResult(t)})
        => ~Reading(Other(t))

\* a load is between its clear and its merge, the store differs from both
\* ends of the apply, and a reader waits for the lock
C3_Witness ==
    \E t \in Threads :
        /\ pc[t] = "load_update"
        /\ users_list \notin {loc[t].before, ApplyResult(t)}
        /\ loc[t].new_users_temp_dict # <<>>
        /\ pc[Other(t)] \in {"list_lock", "exp_lock"}

\* thread t takes the step that merges and ends its load
LoadCommits(t) == pc[t] = "load_update" /\ pc'[t] = "idle"

\* store maps the key of item to the user of item
Holds(store, item) == DictHas(store, item.k) /\ DictGet(store, item.k) = item.v

\* user is what User(...) makes of the fields of some entry of root whose key
\* parses to the user's id
FromFile(user, root) ==
    \E i \in 1..Len(root.items) :
        LET e == root.items[i]
        IN  /\ e.v.t = "dict"
            /\ {"id", "name", "email"} \subseteq DOMAIN e.v.f
            /\ ParseInt(e.k.s).ok
            /\ PyEq(PyInt(ParseInt(e.k.s).n), user.id)
            /\ e.v.f.id = user.id
            /\ IsStr(e.v.f.name) /\ PyStr(strip(e.v.f.name.s)) = user.name
            /\ e.v.f.email = user.email

\* C4: when a load with clear_users_list = False merges, every entry the
\* store had when the apply began and whose id is not among the materialized
\* users is still there with the same user, and every materialized user,
\* which carries the (validated) values of an entry of the file, is in the
\* store under its id, whether the id was there before or not.
C4_MergeStep ==
    \A t \in Threads :
        (LoadCommits(t) /\ ~call[t].clear_users_list)
        => LET b == loc[t].before
               n == loc[t].new_users_temp_dict
           IN  /\ \A i \in 1..Len(b) :
                      ~DictHas(n, b[i].k) => Holds(users_list', b[i])
               /\ \A j \in 1..Len(n) :
                      /\ Holds(users_list', n[j])
                      /\ FromFile(n[j].v, loc[t].loaded_raw_data)

C4_MergeKeepsOthersOverwritesShared == [][C4_MergeStep]_vars

\* thread t has run load_users_from_json to its successful end
LoadDone(t) ==
    Idle(t) /\ call[t].op = "load_users_from_json" /\ ret[t] = "ok"

\* a merge without clear has replaced the user of an id the store had and
\* added an id it did not have
C4_Witness ==
    \E t \in Threads :
        /\ LoadDone(t) /\ ~call[t].clear_users_list
        /\ users_list = ApplyResult(t)
        /\ \E j \in 1..Len(loc[t].new_users_temp_dict) :
               LET item == loc[t].new_users_temp_dict[j]
               IN  /\ DictHas(loc[t].before, item.k)
                   /\ DictGet(loc[t].before, item.k) # item.v
        /\ \E j \in 1..Len(loc[t].new_users_temp_dict) :
               ~DictHas(loc[t].before, loc[t].new_users_temp_dict[j].k)

\* C5: when a load with clear_users_list = True merges, the store is made of
\* the materialized users and nothing else: no entry it had before survives
\* unless the file materialized its id, and with no materialized user the
\* store is empty.
C5_ClearStep ==
    \A t \in Threads :
        (LoadCommits(t) /\ call[t].clear_users_list)
        => LET b == loc[t].before
               n == loc[t].new_users_temp_dict
           IN  /\ Len(users_list') = Len(n)
               /\ \A j \in 1..Len(n) : Holds(users_list', n[j])
               /\ \A i \in 1..Len(b) :
                      ~DictHas(n, b[i].k) => ~DictHas(users_list', b[i].k)
               /\ (n = <<>> => users_list' = <<>>)

C5_ClearLeavesOnlyFileUsers == [][C5_ClearStep]_vars

\* a load with clear from a file with no valid entry has emptied a store
\* that held users
C5_Witness ==
    \E t \in Threads :
        /\ LoadDone(t) /\ call[t].clear_users_list
        /\ loc[t].before # <<>>
        /\ loc[t].new_users_temp_dict = <<>>
        /\ loc[t].users_failed_in_preparation > 0
        /\ users_list = <<>>

\* the path holds nothing that load_users_from_json can read as a JSON object
NoJsonObject(f) ==
    \/ f.kind \in {"absent", "dir", "bytes"}
    \/ (f.kind = "text" /\ ~f.json)
    \/ (f.kind = "text" /\ f.json /\ f.root.t # "dict")

\* the exceptions that leave lines 222-243
LoadErrors ==
    {"FileNotFoundError", "JSONDecodeError", "DataFileReadError", "TypeError",
     "UnicodeDecodeError"}

\* C6: when the file is missing, unreadable, not JSON or not a JSON object,
\* the step of load_users_from_json that reads it ends the call with an
\* exception and the store as it was, for both values of clear_users_list;
\* a load that has failed never reached the lock, the clear or the merge.
C6_FailStep ==
    \A t \in Threads :
        (pc[t] = "load_read" /\ pc'[t] # "load_read" /\ NoJsonObject(file))
        => /\ pc'[t] = "idle"
           /\ ret'[t] \in LoadErrors
           /\ users_list' = users_list

C6_FailedNeverApplied ==
    \A t \in Threads :
        (Idle(t) /\ call[t].op = "load_users_from_json" /\ ret[t] # "ok")
        => ret[t] \in LoadErrors /\ loc[t] = NoLocals

C6_FailedLoadLeavesStore == [][C6_FailStep]_vars /\ []C6_FailedNeverApplied

\* a load with clear has failed on a root that is no object and the store
\* still holds its users
C6_Witness ==
    \E t \in Threads :
        /\ Idle(t) /\ call[t].op = "load_users_from_json"
        /\ call[t].clear_users_list
        /\ ret[t] = "TypeError"
        /\ users_list # <<>>

\* what PrepareEntry must make of an entry for it to be well-formed, said
\* without the loop: the value is an object with id, name and email, the key
\* parses to an integer equal to the id, and User(...) accepts the fields
WellFormed(e) ==
    /\ e.v.t = "dict"
    /\ {"id", "name", "email"} \subseteq DOMAIN e.v.f
    /\ ParseInt(e.k.s).ok
    /\ PyEq(PyInt(ParseInt(e.k.s).n), e.v.f.id)
    /\ User_init(e.v.f.id, e.v.f.name, e.v.f.email).exc = "ok"

\* the store item a well-formed entry stands for
ItemOf(e) ==
    [k |-> e.v.f.id, v |-> User_init(e.v.f.id, e.v.f.name, e.v.f.email).user]

\* a later well-formed entry of the same root has a key that parses to the
\* same id
Shadowed(root, i) ==
    \E j \in (i + 1)..Len(root.items) :
        /\ WellFormed(root.items[j])
        /\ PyEq(root.items[j].v.f.id, root.items[i].v.f.id)

\* the keys of the entries of root that are not well-formed, in file order
InvalidKeys(root) ==
    LET bad == {i \in 1..Len(root.items) : ~WellFormed(root.items[i])}
        nth[k \in 0..Cardinality(bad)] ==
            IF k = 0 THEN 0
            ELSE SetMin({i \in bad : i > nth[k - 1]})
    IN  [k \in 1..Cardinality(bad) |-> root.items[nth[k]].k.s]

\* the step that reads a JSON object goes on to the apply, and the load then
\* ends without raising; every entry that is not well-formed is counted and
\* its key named by a diagnostic; every well-formed entry (with lastWins:
\* every one that no later entry shadows) is in the store when the load has
\* merged
C7_Step(lastWins) ==
    \A t \in Threads :
        /\ (pc[t] = "load_read" /\ pc'[t] # "load_read" /\ ~NoJsonObject(file))
           => /\ pc'[t] = "load_lock"
              /\ loc'[t].skipped = InvalidKeys(file.root)
              /\ loc'[t].users_failed_in_preparation = Len(InvalidKeys(file.root))
        /\ LoadCommits(t)
           => /\ ret'[t] = "ok"
              /\ \A i \in 1..Len(loc[t].loaded_raw_data.items) :
                     (WellFormed(loc[t].loaded_raw_data.items[i])
                          /\ (lastWins => ~Shadowed(loc[t].loaded_raw_data, i)))
                     => Holds(users_list', ItemOf(loc[t].loaded_raw_data.items[i]))
              /\ (loc[t].loaded_raw_data = MixedFile.root /\ loc[t].before = <<>>)
                     => Len(users_list') = 1 /\ Len(loc[t].skipped) = 2

\* C7 as stated: every well-formed entry of the file is in the store when
\* the load has merged.
C7_EveryWellFormedEntryStored == [][C7_Step(FALSE)]_vars

\* C7, amended: a load of a file whose root is an object never raises; each
\* entry that is not well-formed is skipped, counted and named by a
\* diagnostic; every well-formed entry is in the store when the load has
\* merged unless a later well-formed entry of the same file has a key that
\* parses to the same id (the last one is stored); a file with two invalid
\* entries and one well-formed entry loaded into an empty store gives a store
\* of size 1 and two diagnostics.
C7_WellFormedEntriesStoredLastWins == [][C7_Step(TRUE)]_vars

\* the file with two invalid entries and one well-formed entry has been
\* loaded into an empty store
C7_Witness ==
    \E t \in Threads :
        /\ LoadDone(t)
        /\ loc[t].loaded_raw_data = MixedFile.root
        /\ loc[t].before = <<>>
        /\ loc[t].skipped = << <<"4", "4">>, <<"3", "4", "1">> >>
        /\ Len(users_list) = 1

\* thread t takes the step that writes the file and ends its export
ExportWrites(t) == pc[t] = "exp_dump" /\ pc'[t] = "idle"

\* C8: what export_users_json writes is the mapping as it was when the
\* snapshot was taken under the lock, whatever add_user, remove_user_by_id
\* or load has done to the store since; the file then holds that data, and
\* nothing else unless another export has written the path since this one
\* opened it.
C8_WriteStep ==
    \A t \in Threads :
        ExportWrites(t)
        => /\ ExportData(t) = Snapshot(loc[t].before)
           /\ file' \in {JsonFile(DumpJson(Snapshot(loc[t].before))), MalformedFile}
           /\ file = MalformedFile
                  => file' = JsonFile(DumpJson(Snapshot(loc[t].before)))

C8_ExportWritesSnapshot == [][C8_WriteStep]_vars

\* an export has written its snapshot although the store changed after the
\* snapshot was taken
C8_Witness ==
    \E t \in Threads :
        /\ Idle(t) /\ call[t].op = "export_users_json" /\ ret[t] = "ok"
        /\ file = JsonFile(DumpJson(Snapshot(loc[t].before)))
        /\ loc[t].before # <<>>
        /\ users_list # loc[t].before
        /\ Idle(Other(t)) /\ ret[Other(t)] = "ok"

\* thread t is reading the import file or writing the export file
InFileIO(t) == pc[t] \in {"load_read", "exp_open", "exp_dump"}

\* the places inside a with self._lock block
LockedPcs ==
    {"add_check", "add_insert", "rm_pop", "load_clear", "load_update",
     "exp_snapshot", "list_read", "get_read", "str_read", "setup_store",
     "clear_store"}

\* C9: a thread that is reading the import file or writing the export file
\* does not hold the lock, and whoever holds the lock is inside a with-block
\* none of whose steps waits for a file: the lock is not kept from add_user
\* or remove_user_by_id by file I/O.
C9_NoLockDuringFileIO ==
    \A t \in Threads :
        /\ InFileIO(t) => lock # t
        /\ lock = t => pc[t] \in LockedPcs

\* while one thread is still writing its export, another thread's add_user of
\* an id that was not in the snapshot has taken the lock and returned
C9_Witness ==
    \E t \in Threads :
        /\ pc[t] = "exp_dump"
        /\ AddDone(Other(t)) /\ ret[Other(t)] = "ok"
        /\ ~DictHas(loc[t].before, call[Other(t)].user.id)
        /\ DictHas(users_list, call[Other(t)].user.id)

\* what the path holds after export_users_json on store
AfterExport(store, f) ==
    IF Snapshot(store) = <<>> \/ f.kind = "dir" THEN f
    ELSE JsonFile(DumpJson(Snapshot(store)))

\* the store after load_users_from_json(clear_users_list = True) of f
AfterLoadClear(store, f) ==
    IF ReadJson(f).exc # "ok" THEN store
    ELSE UpdateStep(ClearStep(store, TRUE), Prepare(ReadJson(f).root).new_users_temp_dict)

\* export, then load with clear, with nothing in between
RoundTrip(store, f) == AfterLoadClear(store, AfterExport(store, f))

\* the ids of a store with the name and the email each maps to
View(store) ==
    {<<IntOf(store[i].k), store[i].v.name, store[i].v.email>> : i \in 1..Len(store)}

\* the items of a store whose key is not a bool
IntKeyed(store) == SelectSeq(store, LAMBDA item : item.k.t = "int")

\* C10 as stated: from every reachable store, export followed by load with
\* clear gives a store with the same ids, names and emails.
C10_RoundTrip == View(RoundTrip(users_list, file)) = View(users_list)

\* C10, amended: from every reachable store that is not empty, an export
\* that can write its file followed by load with clear gives the same ids,
\* names and emails for every entry whose key is an int; an entry whose key
\* is the bool True is written under the JSON key "true" and skipped by the
\* load.  (An empty store writes nothing, and the load then reads whatever
\* the path held before.)
C10_RoundTripOfWrittenStore ==
    (users_list # <<>> /\ file.kind # "dir")
    => View(RoundTrip(users_list, file)) = View(IntKeyed(users_list))

\* a store of two users, one with a name that was trimmed, over a file that
\* holds something else
C10_Witness ==
    /\ Len(users_list) = 2
    /\ \A i \in 1..2 : users_list[i].k.t = "int"
    /\ file.kind # "dir"
    /\ AfterExport(users_list, file) # file
    /\ View(RoundTrip(users_list, file)) = View(users_list)

\* thread t is in the part of export_users_json that opens and writes the file
Writing(t) == pc[t] \in {"exp_open", "exp_dump"}

\* C11: an export whose snapshot is empty returns successfully at its empty
\* check, and that step leaves the path as it was; no thread ever reaches the
\* open or the write of the file with an empty snapshot, and the path changes
\* only in a step of a thread that is writing a snapshot that is not empty.
\* So an absent file stays absent and an existing file keeps its content.
C11_EmptyStep ==
    /\ \A t \in Threads :
           ( /\ pc[t] = "exp_snapshot"
             /\ pc'[t] # "exp_snapshot"
             /\ Snapshot(users_list) = <<>> )
           => /\ pc'[t] = "idle"
              /\ ret'[t] = "ok"
              /\ file' = file
    /\ file' # file
       => \E t \in Threads :
              Writing(t) /\ loc[t].users_to_export # <<>> /\ pc'[t] # pc[t]

C11_NeverWritesEmpty ==
    \A t \in Threads : Writing(t) => loc[t].users_to_export # <<>>

C11_EmptyExportWritesNothing == [][C11_EmptyStep]_vars /\ []C11_NeverWritesEmpty

\* the only call of a run was an export of the empty store: it has returned
\* successfully and the path, which held two users or did not exist, is as
\* it was
C11_Witness ==
    \E t \in Threads :
        /\ ncalls = 1
        /\ Idle(t) /\ call[t].op = "export_users_json" /\ ret[t] = "ok"
        /\ store0 = <<>> /\ loc[t].users_to_export = <<>>
        /\ file \in {AbsentFile, TwoUsersFile}

\* thread t has run remove_user_by_id to its end
RemoveDone(t) == Idle(t) /\ call[t].op = "remove_user_by_id"

\* thread t takes the step that pops and ends its remove_user_by_id
RemovePops(t) == pc[t] = "rm_pop" /\ pc'[t] # "rm_pop"

\* C12: remove_user_by_id for an id that is no key of the store when the call
\* holds the lock raises UserNotFoundError, and the store after that step is
\* the store before it; when it is the only call of a run the store is still
\* the one the run started with (same keys, same users, same size).
C12_AbsentStep ==
    \A t \in Threads :
        (RemovePops(t) /\ ~DictHas(users_list, call[t].user_id))
        => /\ pc'[t] = "idle"
           /\ ret'[t] = "UserNotFoundError"
           /\ users_list' = users_list

C12_AbsentAlone ==
    \A t \in Threads :
        (ncalls = 1 /\ RemoveDone(t) /\ ~DictHas(store0, call[t].user_id))
        => ret[t] = "UserNotFoundError" /\ users_list = store0

C12_RemoveAbsentLeavesStore == [][C12_AbsentStep]_vars /\ []C12_AbsentAlone

\* a remove of an id that a store of one user does not hold has failed
C12_Witness ==
    \E t \in Threads :
        /\ ncalls = 1 /\ RemoveDone(t)
        /\ ret[t] = "UserNotFoundError"
        /\ Len(users_list) = 1
        /\ ~DictHas(users_list, call[t].user_id)

\* C13: remove_user_by_id for an id that is a key of the store when the call
\* holds the lock succeeds; after that step the id is absent (a lookup gives
\* nothing, so a get or another remove reports not found), the store is one
\* entry shorter, and every entry under another key is there as before, in
\* the same order.  Of two removes of the same stored id that are the only
\* calls of a run, one succeeds and the other fails with UserNotFoundError.
C13_PresentStep ==
    \A t \in Threads :
        (RemovePops(t) /\ DictHas(users_list, call[t].user_id))
        => /\ pc'[t] = "idle"
           /\ ret'[t] = "ok"
           /\ ~DictHas(users_list', call[t].user_id)
           /\ DictGetOrNone(users_list', call[t].user_id) = PyNone
           /\ Len(users_list') = Len(users_list) - 1
           /\ users_list' =
                  SelectSeq(users_list,
                            LAMBDA item : ~PyEq(item.k, call[t].user_id))

C13_SecondRemoveFails ==
    \A t \in Threads :
        LET u == Other(t)
        IN  ( /\ ncalls = 2
              /\ RemoveDone(t) /\ RemoveDone(u)
              /\ call[t].user_id = call[u].user_id
              /\ DictHas(store0, call[t].user_id) )
            => /\ {ret[t], ret[u]} = {"ok", "UserNotFoundError"}
               /\ ~DictHas(users_list, call[t].user_id)

C13_RemovePresentRemovesOnlyIt == [][C13_PresentStep]_vars /\ []C13_SecondRemoveFails

\* the first user of a store of two has been removed and the second is left
C13_Witness ==
    \E t \in Threads :
        /\ ncalls = 1 /\ RemoveDone(t)
        /\ ret[t] = "ok"
        /\ Len(store0) = 2 /\ PyEq(store0[1].k, call[t].user_id)
        /\ users_list = <<store0[2]>>

\* thread t takes the step that inserts and ends its add_user
AddInserts(t) == pc[t] = "add_insert" /\ pc'[t] # "add_insert"

\* C14: add_user with a User whose id is no key of the store when the call
\* holds the lock passes the membership test and inserts: the call returns
\* successfully, the store maps the id to that user, it is one entry longer,
\* and every entry that was there is there unchanged, in the same place.
\* When it is the only call of a run the store is the one the run started
\* with plus that user.
C14_AbsentStep ==
    \A t \in Threads :
        /\ ( /\ pc[t] = "add_check" /\ pc'[t] # "add_check"
             /\ ~DictHas(users_list, call[t].user.id) )
           => pc'[t] = "add_insert" /\ users_list' = users_list
        /\ AddInserts(t)
           => /\ ~DictHas(users_list, call[t].user.id)
              /\ pc'[t] = "idle"
              /\ ret'[t] = "ok"
              /\ DictHas(users_list', call[t].user.id)
              /\ DictGet(users_list', call[t].user.id) = call[t].user
              /\ Len(users_list') = Len(users_list) + 1
              /\ \A i \in 1..Len(users_list) : users_list'[i] = users_list[i]

C14_AbsentAlone ==
    \A t \in Threads :
        (ncalls = 1 /\ AddDone(t) /\ ~DictHas(store0, call[t].user.id))
        => /\ ret[t] = "ok"
           /\ users_list = Append(store0, [k |-> call[t].user.id, v |-> call[t].user])

C14_AddAbsentInsertsOnlyIt == [][C14_AbsentStep]_vars /\ []C14_AbsentAlone

\* a user has been added to a store that held another user: the store holds
\* both, the old one in its place and the new one after it
C14_Witness ==
    \E t \in Threads :
        /\ ncalls = 1 /\ AddDone(t) /\ ret[t] = "ok"
        /\ Len(store0) = 1 /\ Len(users_list) = 2
        /\ users_list[1] = store0[1]
        /\ users_list[2].v = call[t].user
        /\ call[t].user.name = Jess

\* C16: when the only two calls of a run are add_user calls by two threads
\* with different ids, neither of them in the store before, then once both
\* have returned both have succeeded and the store maps each id to its user,
\* whichever call took the lock first.
C16_DifferentIdAddsBothWin ==
    \A t \in Threads :
        LET u == Other(t)
        IN  ( /\ ncalls = 2
              /\ AddDone(t) /\ AddDone(u)
              /\ ~PyEq(call[t].user.id, call[u].user.id)
              /\ ~DictHas(store0, call[t].user.id)
              /\ ~DictHas(store0, call[u].user.id) )
            => /\ ret[t] = "ok" /\ ret[u] = "ok"
               /\ DictGet(users_list, call[t].user.id) = call[t].user
               /\ DictGet(users_list, call[u].user.id) = call[u].user
               /\ Len(users_list) = Len(store0) + 2

\* two adds with different ids into the empty store have both returned, and
\* the thread that started second inserted first
C16_Witness ==
    /\ ncalls = 2
    /\ AddDone("t1") /\ AddDone("t2")
    /\ store0 = <<>>
    /\ ret["t1"] = "ok" /\ ret["t2"] = "ok"
    /\ Len(users_list) = 2
    /\ users_list[1].v = call["t2"].user
    /\ users_list[2].v = call["t1"].user

\* the places where a thread waits for the lock
WaitingPcs ==
    {"add_lock", "rm_lock", "load_lock", "exp_lock", "list_lock", "get_lock",
     "str_lock", "setup_lock", "clear_lock"}

\* thread t is at a step that reads or writes the mapping: the membership
\* test and the insert of add_user, the pop of remove_user_by_id, the clear
\* and the merge of a load, the snapshot of an export, the reads of
\* get_all_users, get_user and __str__, the loop of setup_users_endpoint and
\* the clear of clear_users
InCritical(t) == pc[t] \in LockedPcs

\* thread t's step changes what it has read from the mapping
ReadsMapping(t) ==
    /\ pc[t] # "idle"
    /\ \/ loc'[t].users # loc[t].users
       \/ loc'[t].user # loc[t].user
       \/ loc'[t].users_to_export # loc[t].users_to_export

\* C15: a thread that is at a step that reads or writes the mapping holds the
\* lock, so at most one thread is at such a step; the mapping changes only in
\* a step of the thread that holds the lock, and a thread's result of reading
\* the mapping (the list, the looked-up user, the export snapshot) is set only
\* in a step it takes while it holds the lock.
C15_Exclusion ==
    /\ \A t \in Threads : InCritical(t) => lock = t
    /\ Cardinality({t \in Threads : InCritical(t)}) <= 1

C15_AccessStep ==
    /\ users_list' # users_list
       => \E t \in Threads : lock = t /\ InCritical(t) /\ pc'[t] # pc[t]
    /\ \A t \in Threads : ReadsMapping(t) => (lock = t /\ InCritical(t))

C15_MutualExclusion == []C15_Exclusion /\ [][C15_AccessStep]_vars

\* one thread is inside the loop of the setup endpoint while the other waits
\* for the lock to look a user up
C15_Witness ==
    \E t \in Threads :
        /\ pc[t] = "setup_store" /\ lock = t
        /\ call[t].users # <<>>
        /\ pc[Other(t)] = "get_lock"

\* C17: under fair scheduling every call a thread has started returns.  A
\* thread holds the lock only inside a with block, so it has released it on
\* every way out, the raises of DuplicateUserError and UserNotFoundError
\* included; a thread that waits for the lock does not hold it; and whenever
\* some call has not returned, some thread inside a call is not waiting for
\* a lock that is held.
C17_LockDiscipline ==
    /\ \A t \in Threads :
           /\ lock = t => pc[t] \in LockedPcs
           /\ pc[t] \in WaitingPcs => lock # t
    /\ (\E t \in Threads : pc[t] # "idle")
       => \E t \in Threads :
              pc[t] # "idle" /\ (pc[t] \in WaitingPcs => lock = NoThread)

C17_EveryCallReturns ==
    /\ []C17_LockDiscipline
    /\ \A t \in Threads : (pc[t] # "idle") ~> (pc[t] = "idle")

\* an add_user has ended by raising DuplicateUserError inside its with block
\* and the other thread has since taken the lock for a remove_user_by_id
C17_Witness ==
    \E t \in Threads :
        /\ AddDone(t) /\ ret[t] = "DuplicateUserError"
        /\ pc[Other(t)] = "rm_pop" /\ lock = Other(t)

\* the field constraints of a User: an integer id of at least 1, a name that
\* is its own trimmed form, of 4 to 70 characters, all of them letters,
\* spaces, hyphens, apostrophes or periods, and an email that is a string
SatisfiesConstraints(u) ==
    /\ u.id.t = "int" /\ u.id.n >= 1
    /\ u.name.t = "str"
    /\ \A i \in 1..Len(u.name.s) : u.name.s[i] \in ALLOWED_NAME_CHARS
    /\ Len(u.name.s) >= 4 /\ Len(u.name.s) <= 70
    /\ u.name.s[1] \notin Whitespace /\ u.name.s[Len(u.name.s)] \notin Whitespace
    /\ u.email.t = "str"

\* C18 as stated: in every reachable state every User held in the store
\* satisfies the field constraints.
C18_StoredUsersSatisfyConstraints ==
    \A i \in 1..Len(users_list) : SatisfiesConstraints(users_list[i].v)

\* thread t has constructed, or failed to construct, a User
Constructed(t) == call[t].op = "User"

\* a name that the constraints accept: trimmed, it has 4 to 70 characters,
\* all of them letters, spaces, hyphens, apostrophes or periods
AcceptableName(name) ==
    /\ name.t = "str"
    /\ Len(strip(name.s)) >= 4 /\ Len(strip(name.s)) <= 70
    /\ \A i \in 1..Len(strip(name.s)) : strip(name.s)[i] \in ALLOWED_NAME_CHARS

\* C19: for an int id, an acceptable name and a str email, User(...) succeeds
\* exactly when id >= 1; for id <= 0 it raises ValueError, and for id >= 1
\* the object's id is the id given.
C19_IdAtLeastOne ==
    \A t \in Threads :
        ( /\ Constructed(t)
          /\ call[t].args[1].t = "int"
          /\ AcceptableName(call[t].args[2])
          /\ call[t].args[3].t = "str" )
        => /\ ret[t] = "ok" <=> call[t].args[1].n >= 1
           /\ call[t].args[1].n <= 0 => ret[t] = "ValueError"
           /\ call[t].args[1].n >= 1 => loc[t].user.id = call[t].args[1]

\* User(0, ...) with a name of 70 letters has raised ValueError
C19_Witness ==
    \E t \in Threads :
        /\ Constructed(t)
        /\ call[t].args[1] = PyInt(0)
        /\ call[t].args[2] = PyStr(Repeat("a", 70))
        /\ call[t].args[3] = MailW
        /\ ret[t] = "ValueError"

\* C20: for an int id >= 1, a str email and a str name, User(...) succeeds
\* exactly when the name is acceptable (its trimmed length is in 4..70,
\* padding not counted, and its trimmed characters are allowed); otherwise
\* it raises ValueError.  On success the object's name is the trimmed input
\* and its id and email are the inputs.
C20_NameTrimmedFourToSeventy ==
    \A t \in Threads :
        ( /\ Constructed(t)
          /\ call[t].args[1].t = "int" /\ call[t].args[1].n >= 1
          /\ call[t].args[2].t = "str"
          /\ call[t].args[3].t = "str" )
        => /\ ret[t] = "ok" <=> AcceptableName(call[t].args[2])
           /\ ~AcceptableName(call[t].args[2]) => ret[t] = "ValueError"
           /\ ret[t] = "ok"
              => /\ loc[t].user.name = PyStr(strip(call[t].args[2].s))
                 /\ loc[t].user.id = call[t].args[1]
                 /\ loc[t].user.email = call[t].args[3]

\* a name of 70 letters inside three characters of padding has been accepted
\* and is held without the padding
C20_Witness ==
    \E t \in Threads :
        /\ Constructed(t)
        /\ call[t].args[1] = PyInt(1)
        /\ call[t].args[2].t = "str"
        /\ Len(call[t].args[2].s) = 73
        /\ ret[t] = "ok"
        /\ loc[t].user.name = PyStr(Repeat("a", 70))

\* C21 as stated: for an int id >= 1 and an acceptable name, User(...) with
\* the empty string as email raises ValueError, and no object with an empty
\* email comes out of a construction.
C21_EmptyEmailRejected ==
    \A t \in Threads :
        ( /\ Constructed(t)
          /\ call[t].args[1].t = "int" /\ call[t].args[1].n >= 1
          /\ AcceptableName(call[t].args[2])
          /\ call[t].args[3] = EmptyStr )
        => ret[t] = "ValueError" /\ loc[t].user = PyNone

\* a step in which an operation of the service stores a whole User under a
\* key: the merge of a load or the loop of the test setup
Replaces == \E t \in Threads : pc[t] \in {"load_update", "setup_store"} /\ pc'[t] = "idle"

\* C22 as stated: a User never changes after construction.  In every step,
\* an entry that the store holds before and after under the same key holds
\* the same id, name and email unless the step is one that stores a whole
\* User under the key, and the object a caller passed to a successful
\* add_user has afterwards the id, name and email it had.
C22_Step ==
    /\ \A i \in 1..Len(users_list) :
           ( /\ DictHas(users_list', users_list[i].k)
             /\ DictGet(users_list', users_list[i].k) # users_list[i].v )
           => Replaces
    /\ \A t \in Threads :
           ( /\ call[t].op = "add_user" /\ ret[t] = "ok" /\ pc[t] = "idle"
             /\ "user" \in DOMAIN call'[t] )
           => call'[t].user = call[t].user \/ call'[t].op = "add_user"

C22_UsersImmutable == [][C22_Step]_vars

\* thread t has run export_users_json to its end
ExportDone(t) == Idle(t) /\ call[t].op = "export_users_json"

\* C23: when open(file_path, "w") fails with an OSError (the path is one that
\* cannot be opened), the step ends the call with DataFileWriteError and
\* leaves the store and the path as they were; an export ends with
\* DataFileWriteError only over such a path and only with a snapshot that
\* is not empty; and when no other thread has made a call, the store after
\* the failed export is the store its snapshot was taken from, with the lock
\* free.
C23_FailStep ==
    \A t \in Threads :
        (pc[t] = "exp_open" /\ pc'[t] # "exp_open" /\ file.kind = "dir")
        => /\ pc'[t] = "idle"
           /\ ret'[t] = "DataFileWriteError"
           /\ users_list' = users_list
           /\ file' = file

C23_FailedAlone ==
    \A t \in Threads :
        (ExportDone(t) /\ ret[t] # "ok")
        => /\ ret[t] = "DataFileWriteError"
           /\ file.kind = "dir"
           /\ loc[t].users_to_export # <<>>
           /\ (call[Other(t)].op = "none"
               => users_list = loc[t].before /\ lock = NoThread)

C23_WriteFailureLeavesStore == [][C23_FailStep]_vars /\ []C23_FailedAlone

\* one thread has added a user and then exported over a path that cannot be
\* opened: the export has failed and the store still holds the user
C23_Witness ==
    \E t \in Threads :
        /\ ExportDone(t) /\ ret[t] = "DataFileWriteError"
        /\ call[Other(t)].op = "none"
        /\ users_list # <<>>
        /\ users_list = loc[t].before

\* f holds one JSON object with one entry per item of store, in order, each
\* keyed by the decimal digits of the user's id and holding exactly the
\* fields id, name and email of that user
WrittenAs(f, store) ==
    /\ f.kind = "text" /\ f.json /\ f.root.t = "dict"
    /\ Len(f.root.items) = Len(store)
    /\ \A i \in 1..Len(store) :
           LET e == f.root.items[i]
               u == store[i].v
           IN  /\ e.k = PyStr(IntToStr(IntOf(u.id)))
               /\ e.v.t = "dict"
               /\ DOMAIN e.v.f = {"id", "name", "email"}
               /\ e.v.f.id = u.id /\ e.v.f.name = u.name /\ e.v.f.email = u.email

\* C24 as stated: the step that ends a successful export of a non-empty
\* snapshot leaves at the path one JSON object with exactly one entry per
\* user of the store the snapshot was taken from, keyed by the decimal
\* string of the user's id, with the fields id, name and email of that user.
C24_Step ==
    \A t \in Threads :
        ExportWrites(t)
        => /\ ret'[t] = "ok"
           /\ loc[t].before # <<>>
           /\ WrittenAs(file', loc[t].before)

C24_ExportWritesEntryPerUser == [][C24_Step]_vars

\* the same for snapshots in which every id is an int, written to the file
\* as the export's open() left it
C24_StepIntIds ==
    \A t \in Threads :
        (ExportWrites(t) /\ \A i \in 1..Len(loc[t].before) : loc[t].before[i].k.t = "int")
        => /\ ret'[t] = "ok"
           /\ loc[t].before # <<>>
           /\ file = MalformedFile => WrittenAs(file', loc[t].before)

C24_ExportOfIntIds == [][C24_StepIntIds]_vars

\* an export has written a store of two users with int ids
C24_Witness ==
    \E t \in Threads :
        /\ ExportDone(t) /\ ret[t] = "ok"
        /\ Len(loc[t].before) = 2
        /\ \A i \in 1..2 : loc[t].before[i].k.t = "int"
        /\ WrittenAs(file, loc[t].before)

\* the counts named by the closing log line of a load (lines 300-306):
\* len(new_users_temp_dict) users loaded, users_failed_in_preparation skipped
LoadedCount(t) == Len(loc[t].new_users_temp_dict)

SkippedCount(t) == loc[t].users_failed_in_preparation

EntryCount(t) == Len(loc[t].loaded_raw_data.items)

\* C25 as stated: after a successful load the skipped count is the number of
\* entries that are not well-formed, the loaded count is the number of users
\* merged, and the two add up to the number of top-level entries of the file.
C25_CountsSumToEntries ==
    \A t \in Threads :
        LoadDone(t)
        => /\ SkippedCount(t) =
                  Cardinality({i \in 1..EntryCount(t) :
                                  ~WellFormed(loc[t].loaded_raw_data.items[i])})
           /\ LoadedCount(t) + SkippedCount(t) = EntryCount(t)

\* C25 as amended: the skipped count is the number of entries that are not
\* well-formed, the loaded count is the number of well-formed entries that
\* no later well-formed entry of the same id shadows (the number of distinct
\* ids merged), so the two add up to at most the number of entries, and to
\* exactly that number when no entry is shadowed.
C25_CountsOfDistinctIds ==
    \A t \in Threads :
        LoadDone(t)
        => LET root == loc[t].loaded_raw_data
               good == {i \in 1..EntryCount(t) : WellFormed(root.items[i])}
           IN  /\ SkippedCount(t) = EntryCount(t) - Cardinality(good)
               /\ LoadedCount(t) = Cardinality({i \in good : ~Shadowed(root, i)})
               /\ LoadedCount(t) + SkippedCount(t) <= EntryCount(t)
               /\ (\A i \in good : ~Shadowed(root, i))
                  => LoadedCount(t) + SkippedCount(t) = EntryCount(t)

\* a load of a file whose two keys parse to one id has ended: two entries,
\* none skipped, one user loaded
C25_Witness ==
    \E t \in Threads :
        /\ LoadDone(t)
        /\ EntryCount(t) = 2 /\ LoadedCount(t) = 1 /\ SkippedCount(t) = 0

\* thread t's load has prepared the entries of the file
Prepared(t) == pc[t] \in {"load_lock", "load_clear", "load_update"} \/ LoadDone(t)

\* entry i of the file of thread t's load was skipped: a log line names its key
Skipped(t, i) ==
    \E j \in 1..Len(loc[t].skipped) :
        loc[t].skipped[j] = loc[t].loaded_raw_data.items[i].k.s

\* the key of entry e parses to an integer that differs from its id field
KeyMismatch(e) ==
    /\ e.v.t = "dict" /\ "id" \in DOMAIN e.v.f
    /\ ParseInt(e.k.s).ok
    /\ ~PyEq(PyInt(ParseInt(e.k.s).n), e.v.f.id)

\* some well-formed entry of root has an id equal to k
GivenByFile(root, k) ==
    \E i \in 1..Len(root.items) :
        WellFormed(root.items[i]) /\ PyEq(root.items[i].v.f.id, k)

\* C26: once a load has prepared its entries, an entry was materialized (not
\* skipped) exactly when it is well-formed: an object with id, name and
\* email whose key parses to an integer equal to the id and whose fields
\* User(...) accepts; every materialized user is the user of a well-formed
\* entry; and an entry whose key differs from its id puts nothing into the
\* materialized users, neither under its key nor under its id, unless a
\* well-formed entry of the file has that id.
C26_Prepared ==
    \A t \in Threads :
        Prepared(t)
        => LET root == loc[t].loaded_raw_data
               n == loc[t].new_users_temp_dict
           IN  /\ \A i \in 1..Len(root.items) :
                      ~Skipped(t, i) <=> WellFormed(root.items[i])
               /\ \A j \in 1..Len(n) :
                      \E i \in 1..Len(root.items) :
                          WellFormed(root.items[i]) /\ ItemOf(root.items[i]) = n[j]
               /\ \A i \in 1..Len(root.items) :
                      KeyMismatch(root.items[i])
                      => \A k \in {PyInt(ParseInt(root.items[i].k.s).n),
                                   root.items[i].v.f.id} :
                             DictHas(n, k) => GivenByFile(root, k)

\* the merge of a load puts under the key or the id of an entry whose key
\* differs from its id only what the store had before or what a well-formed
\* entry of the file gives
C26_MergeStep ==
    \A t \in Threads :
        LoadCommits(t)
        => LET root == loc[t].loaded_raw_data
           IN  \A i \in 1..Len(root.items) :
                   KeyMismatch(root.items[i])
                   => \A k \in {PyInt(ParseInt(root.items[i].k.s).n),
                                root.items[i].v.f.id} :
                          DictHas(users_list', k)
                          => \/ GivenByFile(root, k)
                             \/ (~call[t].clear_users_list /\ DictHas(loc[t].before, k))

C26_MaterializedIffWellFormed == []C26_Prepared /\ [][C26_MergeStep]_vars

\* a load of the file with the key "341" over the id 89 has ended: that entry
\* and the entry that is no object were skipped, the third was materialized,
\* and the store holds neither 341 nor 89
C26_Witness ==
    \E t \in Threads :
        /\ LoadDone(t)
        /\ loc[t].loaded_raw_data = MixedFile.root
        /\ Skipped(t, 1) /\ Skipped(t, 2) /\ ~Skipped(t, 3)
        /\ KeyMismatch(MixedFile.root.items[2])
        /\ ~DictHas(users_list, PyInt(341)) /\ ~DictHas(users_list, PyInt(89))
        /\ DictHas(users_list, PyInt(2))

\* the four error kinds of the claim: FileNotFound, MalformedJSON, IOFailure
\* and InvalidFormat
FourLoadErrors ==
    {"FileNotFoundError", "JSONDecodeError", "DataFileReadError", "TypeError"}

\* thread t takes the step that reads the file of its load
LoadReads(t) == pc[t] = "load_read" /\ pc'[t] # "load_read"

\* the content at the path is there, can be opened, and is no valid JSON
NotValidJson(f) == f.kind = "bytes" \/ (f.kind = "text" /\ ~f.json)

\* the step that reads the file ends the call with FileNotFoundError exactly
\* when the path does not exist, with JSONDecodeError exactly when the
\* content is no valid JSON, with DataFileReadError exactly when open()
\* fails otherwise, with TypeError exactly when the parsed root is no
\* object, and in every other case goes on to the apply
KindsStep(t) ==
    /\ ret'[t] = "FileNotFoundError" <=> file.kind = "absent"
    /\ ret'[t] = "JSONDecodeError" <=> NotValidJson(file)
    /\ ret'[t] = "DataFileReadError" <=> file.kind = "dir"
    /\ ret'[t] = "TypeError" <=> (file.kind = "text" /\ file.json /\ file.root.t # "dict")
    /\ IF NoJsonObject(file)
       THEN pc'[t] = "idle" /\ ret'[t] \in FourLoadErrors
       ELSE pc'[t] = "load_lock" /\ ret'[t] = "none"

\* C27 as stated: a load fails as a whole in four ways and no other, each
\* with its own error kind, and a load that has failed has one of the four.
C27_Step == \A t \in Threads : LoadReads(t) => KindsStep(t)

C27_Failed ==
    \A t \in Threads :
        (Idle(t) /\ call[t].op = "load_users_from_json" /\ ret[t] # "ok")
        => ret[t] \in FourLoadErrors

C27_FourFailureKinds == [][C27_Step]_vars /\ []C27_Failed

\* the same over every path whose content the text mode of open() can decode
C27_StepDecodable ==
    \A t \in Threads : (LoadReads(t) /\ file.kind # "bytes") => KindsStep(t)

C27_FourKindsOfDecodableFiles == [][C27_StepDecodable]_vars

\* a load has failed with JSONDecodeError on the file that an export of the
\* other thread has opened for writing and not yet written
C27_Witness ==
    \E t \in Threads :
        /\ Idle(t) /\ call[t].op = "load_users_from_json"
        /\ ret[t] = "JSONDecodeError"
        /\ pc[Other(t)] = "exp_dump"
        /\ NotValidJson(file)

\* thread t calls add_user with an argument that is no User
CallsAddNonUser(t) ==
    /\ pc[t] = "idle"
    /\ ncalls' = ncalls + 1
    /\ call'[t].op = "add_user_non_user"
    /\ call'[Other(t)] = call[Other(t)] /\ ret'[Other(t)] = ret[Other(t)]

\* C28: add_user with an argument that is no User ends in the step that
\* starts it, with TypeError, whoever holds the lock: the lock is neither
\* waited for nor taken, and the store is as it was.  A thread whose last
\* call was such an add_user has TypeError as its result, and when it was
\* the only call of the run the store is the one the run started with.
C28_Step ==
    \A t \in Threads :
        CallsAddNonUser(t)
        => /\ pc'[t] = "idle"
           /\ ret'[t] = "TypeError"
           /\ lock' = lock
           /\ users_list' = users_list

C28_Done ==
    \A t \in Threads :
        call[t].op = "add_user_non_user"
        => /\ Idle(t) /\ ret[t] = "TypeError" /\ lock # t
           /\ (ncalls = 1 => users_list = store0)

C28_NonUserRejectedBeforeLock == [][C28_Step]_vars /\ []C28_Done

\* add_user("user1") has raised TypeError while the other thread was inside
\* the with block of its own add_user, holding the lock, and the store is
\* the one the run started with
C28_Witness ==
    \E t \in Threads :
        /\ call[t].op = "add_user_non_user" /\ call[t].arg.t = "str"
        /\ ret[t] = "TypeError"
        /\ lock = Other(t) /\ pc[Other(t)] = "add_check"
        /\ users_list = store0

\* thread t takes the step of __str__ that reads the store and renders it
StrReads(t) == pc[t] = "str_read" /\ pc'[t] = "idle"

\* the lines of a text: the parts between its line breaks
RECURSIVE SplitLines(_)
SplitLines(s) ==
    IF \A i \in 1..Len(s) : s[i] # "\n" THEN <<s>>
    ELSE LET i == SetMin({j \in 1..Len(s) : s[j] = "\n"})
         IN  <<SubSeq(s, 1, i - 1)>> \o SplitLines(SubSeq(s, i + 1, Len(s)))

\* "<n>. <name> - ID: <id>, Email: <email>" for the n-th item of store
ExpectedLine(store, n) ==
    NatToStr(n) \o <<".", " ">> \o Format(store[n].v.name)
    \o <<" ", "-", " ", "I", "D", ":", " ">> \o Format(store[n].v.id)
    \o <<",", " ", "E", "m", "a", "i", "l", ":", " ">> \o Format(store[n].v.email)

\* where the n-th expected line begins in a text that holds the expected
\* lines of store with one line break after each but the last
RECURSIVE LineStart(_, _)
LineStart(store, n) ==
    IF n = 1 THEN 1
    ELSE LineStart(store, n - 1) + Len(ExpectedLine(store, n - 1)) + 1

\* out is the expected lines of store, in order, with one line break between
\* neighbours and nothing else
NumberedList(out, store) ==
    /\ Len(out) = LineStart(store, Len(store)) + Len(ExpectedLine(store, Len(store))) - 1
    /\ \A n \in 1..Len(store) :
           /\ SubSeq(out, LineStart(store, n),
                     LineStart(store, n) + Len(ExpectedLine(store, n)) - 1)
              = ExpectedLine(store, n)
           /\ n > 1 => out[LineStart(store, n) - 1] = "\n"

\* C29 as stated: the rendering is made in a step that holds the lock, from
\* the store as it is in that step; for an empty store it is the placeholder,
\* otherwise it has one line per user of the store, the n-th line being
\* "<n>. <name> - ID: <id>, Email: <email>" of the n-th user.
C29_Step ==
    \A t \in Threads :
        StrReads(t)
        => /\ lock = t /\ ret'[t] = "ok"
           /\ IF users_list = <<>>
              THEN loc'[t].output = NO_USERS
              ELSE /\ Len(SplitLines(loc'[t].output)) = Len(users_list)
                   /\ \A n \in 1..Len(users_list) :
                          SplitLines(loc'[t].output)[n] = ExpectedLine(users_list, n)

C29_RenderingOneLinePerUser == [][C29_Step]_vars

\* C29 as amended: the rendering is made in a step that holds the lock, from
\* the store as it is in that step; for an empty store it is the placeholder,
\* otherwise it is the strings "<n>. <name> - ID: <id>, Email: <email>" of
\* the users in store order, n counting from 1, with one line break between
\* neighbours; these are its lines, one per user, when no email holds a line
\* break.
C29_StepJoined ==
    \A t \in Threads :
        StrReads(t)
        => /\ lock = t /\ ret'[t] = "ok"
           /\ IF users_list = <<>>
              THEN loc'[t].output = NO_USERS
              ELSE /\ NumberedList(loc'[t].output, users_list)
                   /\ (\A n \in 1..Len(users_list) :
                          \A i \in 1..Len(users_list[n].v.email.s) :
                              users_list[n].v.email.s[i] # "\n")
                      => SplitLines(loc'[t].output)
                         = [n \in 1..Len(users_list) |-> ExpectedLine(users_list, n)]

C29_RenderingNumberedList == [][C29_StepJoined]_vars

\* thread t has rendered the service
StrDone(t) == Idle(t) /\ call[t].op = "__str__" /\ ret[t] = "ok"

\* a store of one user whose email has two lines has been rendered: the
\* numbered string of the user, which takes two lines
C29_Witness ==
    \E t \in Threads :
        /\ StrDone(t)
        /\ Len(loc[t].users) = 1
        /\ loc[t].users[1].email = MailTwoLines
        /\ NumberedList(loc[t].output, <<[k |-> loc[t].users[1].id, v |-> loc[t].users[1]]>>)
        /\ Len(SplitLines(loc[t].output)) = 2

\* the place in root of the first well-formed entry whose id equals k
FirstGiven(root, k) ==
    SetMin({i \in 1..Len(root.items) :
               WellFormed(root.items[i]) /\ PyEq(root.items[i].v.f.id, k)})

\* thread t takes a step that hands the users of the store to a caller
Lists(t) == pc[t] \in {"list_read", "str_read"} /\ pc'[t] = "idle"

\* C30: in every step, two ids that are in the store before and after keep
\* their relative order (an overwritten id keeps its place), and an id that
\* is in the store only after the step comes after every id that was there
\* before (an added id, also one that was removed earlier, goes to the end);
\* the ids a load adds come in the order in which the file first gives them;
\* and a listing or rendering hands out the users in the order of the store.
C30_OrderStep ==
    /\ \A i, j \in 1..Len(users_list') :
           i < j
           => LET a == users_list'[i].k
                  b == users_list'[j].k
              IN  /\ (DictHas(users_list, a) /\ DictHas(users_list, b))
                     => DictIndex(users_list, a) < DictIndex(users_list, b)
                  /\ DictHas(users_list, b) => DictHas(users_list, a)
    /\ \A t \in Threads :
           LoadCommits(t)
           => \A i, j \in 1..Len(users_list') :
                  ( /\ i < j
                    /\ ~DictHas(users_list, users_list'[i].k)
                    /\ ~DictHas(users_list, users_list'[j].k) )
                  => FirstGiven(loc[t].loaded_raw_data, users_list'[i].k)
                     < FirstGiven(loc[t].loaded_raw_data, users_list'[j].k)
    /\ \A t \in Threads :
           Lists(t)
           => /\ Len(loc'[t].users) = Len(users_list)
              /\ \A i \in 1..Len(users_list) : loc'[t].users[i] = users_list[i].v

C30_ListingInInsertionOrder == [][C30_OrderStep]_vars

\* the service started with the ids 1 and 2 in this order; 1 was removed and
\* added again and is now listed after 2
C30_Witness ==
    /\ Len(store0) = 2 /\ store0[1].k = PyInt(1) /\ store0[2].k = PyInt(2)
    /\ Len(users_list) = 2
    /\ users_list[1].k = PyInt(2) /\ users_list[2].k = PyInt(1)
    /\ \E t \in Threads : AddDone(t) /\ ret[t] = "ok" /\ call[t].user.id = PyInt(1)

\* thread t takes the step of the setup endpoint that runs its loop
SetupStores(t) == pc[t] = "setup_store" /\ pc'[t] = "idle"

\* the places of the payload whose user User(...) accepts
ValidIn(users) ==
    {i \in 1..Len(users) : User_init(users[i][1], users[i][2], users[i][3]).exc = "ok"}

\* the user User(...) makes of place i of the payload
UserOf(users, i) == User_init(users[i][1], users[i][2], users[i][3]).user

\* the ids of the valid users of the payload
ValidIds(users) == {UserOf(users, i).id : i \in ValidIn(users)}

\* C31 as stated: the step of the setup endpoint that holds the lock leaves
\* in the store exactly the valid users of the payload: every entry of the
\* store is a valid user of the payload under its id, every valid user of
\* the payload is in the store, and a listing then has as many users as the
\* payload holds valid ids.
C31_Step ==
    \A t \in Threads :
        SetupStores(t)
        => /\ lock = t
           /\ \A i \in 1..Len(users_list') :
                  \E j \in ValidIn(call[t].users) :
                      /\ users_list'[i].v = UserOf(call[t].users, j)
                      /\ users_list'[i].k = UserOf(call[t].users, j).id
           /\ \A j \in ValidIn(call[t].users) :
                  DictHas(users_list', UserOf(call[t].users, j).id)
           /\ Len(DictValues(users_list')) = Cardinality(ValidIds(call[t].users))

C31_SetupStoresExactlyPayload == [][C31_Step]_vars

\* what the endpoint does: holding the lock, it stores every valid user of
\* the payload under its id, over the user the store had under that id, and
\* keeps every other entry of the store as it was; the counts it returns are
\* those of the valid and of the invalid users of the payload.
C31_StepMerge ==
    \A t \in Threads :
        SetupStores(t)
        => /\ lock = t
           /\ \A j \in ValidIn(call[t].users) :
                  \/ \E k \in ValidIn(call[t].users) :
                         /\ k > j
                         /\ PyEq(UserOf(call[t].users, k).id,
                                 UserOf(call[t].users, j).id)
                  \/ /\ DictHas(users_list', UserOf(call[t].users, j).id)
                     /\ DictGet(users_list', UserOf(call[t].users, j).id)
                            = UserOf(call[t].users, j)
           /\ \A i \in 1..Len(users_list) :
                  \/ Holds(users_list', users_list[i])
                  \/ \E j \in ValidIn(call[t].users) :
                         PyEq(UserOf(call[t].users, j).id, users_list[i].k)
           /\ \A i \in 1..Len(users_list') :
                  \/ Holds(users_list, users_list'[i])
                  \/ \E j \in ValidIn(call[t].users) :
                         users_list'[i].v = UserOf(call[t].users, j)
           /\ loc'[t].loaded_count = Cardinality(ValidIn(call[t].users))
           /\ loc'[t].skipped_count =
                  Len(call[t].users) - Cardinality(ValidIn(call[t].users))

C31_SetupMergesPayload == [][C31_StepMerge]_vars

\* thread t has run the setup endpoint to its end
SetupDone(t) == Idle(t) /\ call[t].op = "setup_users_endpoint" /\ ret[t] = "ok"

\* the setup endpoint has stored the one valid user of a payload of two in a
\* store that held the id 1, and the store still holds the id 1
C31_Witness ==
    \E t \in Threads :
        /\ SetupDone(t)
        /\ ncalls = 1
        /\ loc[t].loaded_count = 1 /\ loc[t].skipped_count = 1
        /\ DictHas(store0, PyInt(1)) /\ ~DictHas(store0, PyInt(2))
        /\ DictHas(users_list, PyInt(1)) /\ DictHas(users_list, PyInt(2))

\* the store has each entry under the id of the user it holds, by the
\* equality of Python
KeyIsId(store) == \A i \in 1..Len(store) : PyEq(store[i].v.id, store[i].k)

\* no two entries of the store hold users of equal ids
DistinctIds(store) ==
    \A i, j \in 1..Len(store) : i # j => ~PyEq(store[i].v.id, store[j].v.id)

\* C32: in every state the operations of the service and of the API reach,
\* every entry of the store is keyed by the id of the user it holds
\* (store[k].id == k), and no two users of the store share an id.
C32_KeyIsId == KeyIsId(users_list) /\ DistinctIds(users_list)

\* a load that keeps the store has put the user of id True of its file under
\* the key 1 that add_user had made: the key and the id are equal in Python
\* without being the same value
C32_Witness ==
    /\ \E t \in Threads : LoadDone(t) /\ ~call[t].clear_users_list
    /\ \E i \in 1..Len(users_list) :
           /\ users_list[i].k = PyInt(1)
           /\ users_list[i].v.id = PyBool(TRUE)

\* the operations that only read the store
ReadOnlyOps == {"export_users_json", "__str__", "get_all_users", "get_user"}

\* thread t takes a step of a call of a read-only operation, its start
\* included
ReadOnlyStep(t) == pc'[t] # pc[t] /\ call'[t].op \in ReadOnlyOps

\* C33: no step of export_users_json (writing the file, returning at once
\* on an empty store, or failing), of the string rendering, of the API's
\* list of all users or of its get by id (found or not found) adds, removes
\* or modifies an entry of the store.
C33_Step == \A t \in Threads : ReadOnlyStep(t) => users_list' = users_list

C33_ReadOnlyLeavesStore == [][C33_Step]_vars

\* over a store of users, one thread's export has written the file and the
\* other's get by id has reported an absent id as not found, and the store
\* is the one the service started with
C33_Witness ==
    /\ users_list # <<>> /\ users_list = store0
    /\ \E t \in Threads :
           /\ ExportDone(t) /\ ret[t] = "ok"
           /\ file = JsonFile(DumpJson(loc[t].users_to_export))
           /\ Idle(Other(t)) /\ call[Other(t)].op = "get_user"
           /\ ret[Other(t)] = "HTTPException"

\* the operations C34 is about
LinearOps ==
    {"add_user", "remove_user_by_id", "load_users_from_json",
     "export_users_json", "get_all_users"}

\* thread t takes the step that ends its with-block
Leaves(t) == lock = t /\ lock' = NoThread

\* the store as it was when thread t, which holds the lock, took it
AtLock(t) ==
    IF call[t].op = "load_users_from_json" THEN loc[t].before ELSE users_list

\* the store and the outcome of call c run alone and whole on store; l holds
\* what a load read from its file before it took the lock
Atomic(c, l, store) ==
    IF c.op = "add_user"
    THEN IF DictHas(store, c.user.id)
         THEN [store |-> store, ret |-> "DuplicateUserError"]
         ELSE [store |-> DictSet(store, c.user.id, c.user), ret |-> "ok"]
    ELSE IF c.op = "remove_user_by_id"
    THEN IF DictHas(store, c.user_id)
         THEN [store |-> DictDel(store, c.user_id), ret |-> "ok"]
         ELSE [store |-> store, ret |-> "UserNotFoundError"]
    ELSE IF c.op = "load_users_from_json"
    THEN [store |-> UpdateStep(ClearStep(store, c.clear_users_list),
                               l.new_users_temp_dict),
          ret |-> "ok"]
    ELSE [store |-> store, ret |-> "ok"]

\* the store is changed and read only by the thread that holds the lock,
\* which changes it before the end of its with-block only to clear it for
\* a load; at the end of the with-block of add_user, remove_user_by_id,
\* load_users_from_json, export_users_json or the list of all users, the
\* store, the outcome, the exported snapshot and the listed users are those
\* of the call run alone on the store the thread found when it took the lock
C34_StoreStep ==
    /\ users_list' # users_list => \E t \in Threads : lock = t /\ pc'[t] # pc[t]
    /\ \A t \in Threads :
           /\ pc[t] \in LockedPcs => lock = t
           /\ (lock = t /\ lock' = t /\ pc[t] # "load_clear")
                  => users_list' = users_list
           /\ (Leaves(t) /\ call[t].op \in LinearOps)
                  => LET a == Atomic(call[t], loc[t], AtLock(t))
                     IN  /\ users_list' = a.store
                         /\ call[t].op = "export_users_json"
                                => /\ loc'[t].users_to_export = Snapshot(a.store)
                                   /\ ret'[t] = "ok" <=> a.store = <<>>
                         /\ call[t].op = "get_all_users"
                                => loc'[t].users = DictValues(a.store)
                         /\ call[t].op # "export_users_json" => ret'[t] = a.ret

\* a load that reads the file finds it as a whole call left it: no export is
\* between its open() and the end of its dump
C34_FileStep ==
    \A t \in Threads :
        (pc[t] = "load_read" /\ pc'[t] # pc[t])
            => \A u \in Threads : pc[u] # "exp_dump"

\* C34 as stated: every execution is that of the calls run whole, one after
\* the other, in the order in which they hold the lock: the store, the
\* outcomes, and what a load finds in the file.
C34_Linearizable == [][C34_StoreStep /\ C34_FileStep]_vars

\* C34 for the store: every execution is that of the calls run whole, one
\* after the other, in the order in which they hold the lock, each load
\* applying the batch it read before it took the lock.
C34_StoreLinearizable == [][C34_StoreStep]_vars

\* a load has applied its batch after an export took its snapshot: the
\* export's snapshot is of the store before the load, the file holds that
\* snapshot, and the store is the one the load made of the store it found
C34_Witness ==
    \E t \in Threads :
        /\ LoadDone(t)
        /\ ExportDone(Other(t)) /\ ret[Other(t)] = "ok"
        /\ loc[Other(t)].before # <<>>
        /\ loc[Other(t)].before # users_list
        /\ file = JsonFile(DumpJson(loc[Other(t)].users_to_export))
        /\ users_list = Atomic(call[t], loc[t], loc[t].before).store

\* User(u.id, u.name, u.email) succeeds and gives the attributes of u
AcceptedAgain(u) == User_init(u.id, u.name, u.email) = [exc |-> "ok", user |-> u]

\* the entry export writes for user u held under its id is materialized by
\* the load as a user of the attributes of u
ExportedEntryLoads(u) ==
    PrepareEntry(JsonKey(u.id), UserDict(u)) = [exc |-> "ok", user |-> u]

\* C35 as stated: for every User u that was constructed, User(u.id, u.name,
\* u.email) succeeds with the same id, name and email, and the entry export
\* writes for u is accepted again by the load.
C35_ValidationIdempotent ==
    \A t \in Threads :
        (Constructed(t) /\ ret[t] = "ok")
        => AcceptedAgain(loc[t].user) /\ ExportedEntryLoads(loc[t].user)

\* for every User u that was constructed, User(u.id, u.name, u.email)
\* succeeds with the same id, name and email, and when the id of u is no bool
\* the entry export writes for u is accepted again by the load
C35_IdempotentAndIntIdsLoad ==
    \A t \in Threads :
        (Constructed(t) /\ ret[t] = "ok")
        => /\ AcceptedAgain(loc[t].user)
           /\ loc[t].user.id.t = "int" => ExportedEntryLoads(loc[t].user)

\* a User was constructed from a padded name of 73 characters and the id 2;
\* its name is the 70 characters inside, and it is accepted again
C35_Witness ==
    \E t \in Threads :
        /\ Constructed(t) /\ ret[t] = "ok"
        /\ Len(call[t].args[2].s) = 73
        /\ loc[t].user.name = PyStr(Repeat("a", 70))
        /\ loc[t].user.id = PyInt(2)
        /\ AcceptedAgain(loc[t].user) /\ ExportedEntryLoads(loc[t].user)

\* thread t has run export_users_json to its end and has written its file
Wrote(t) == ExportDone(t) /\ ret[t] = "ok" /\ loc[t].users_to_export # <<>>

\* the file as the dump of the snapshot of thread t leaves it
FileOf(t) == JsonFile(DumpJson(loc[t].users_to_export))

\* the snapshot of thread t is at least as late as that of the other thread:
\* between the two exports the store only grows, by add_user
TookLast(t) ==
    Len(loc[t].users_to_export) >= Len(loc[Other(t)].users_to_export)

C36_LastDumpStep ==
    \A t \in Threads :
        (ExportWrites(t) /\ Wrote(Other(t)))
        => /\ file \in {MalformedFile, FileOf(Other(t))}
           /\ file' = IF file = FileOf(Other(t)) /\ ~TookLast(t)
                      THEN MalformedFile
                      ELSE FileOf(t)

\* once both exports have returned, the file is the whole snapshot of one of
\* them or no JSON
C36_OneSnapshotOrNone ==
    \A t \in Threads :
        (Wrote(t) /\ Wrote(Other(t)))
        => file \in {FileOf(t), FileOf(Other(t)), MalformedFile}

====
